---- MODULE Spec2Model ----
(***************************************************************************)
(* A model of the download / verify pipeline of ue-rs:                     *)
(*   - Package::check_download, Package::download and                      *)
(*     Package::verify_signature_on_disk (src/download/package.rs),        *)
(*   - do_download_and_hash, download_and_hash, do_download_verify,        *)
(*     fetch_url_to_file and DownloadVerify::run (src/download/mod.rs),    *)
(*   - retry_loop (src/util.rs),                                           *)
(*   - the CrAU reader and signature check                                 *)
(*     (update-format-crau/src/delta_update).                              *)
(* Files are modelled by their content: a CrAU artifact is a record of the *)
(* header fields, the manifest fields, the data region and the list of     *)
(* signature candidates.  A digest is the pair (algorithm, bytes hashed),  *)
(* so two digests are equal exactly when algorithm and input agree.        *)
(***************************************************************************)
EXTENDS Integers, Sequences, FiniteSets, TLC

VARIABLES
    pkg,          \* Package: hash_sha256, hash_sha1, size (fixed per run)
    status,       \* Package.status
    unverified,   \* the file <unverified_dir>/<name>: None or Some(file)
    blobs,        \* the file <output_dir>/.tmp/ue_data_blobs
    final,        \* the file <output_dir>/<name>.raw (or target_filename)
    pubkey_file,  \* path of the public key file given to the run
    pc,           \* position inside do_download_verify / the function under test
    ret,          \* result of the operation that returned last
    err,          \* the error of the last failed call ("" when none)
    calls,        \* number of calls of func made by the running retry_loop
    max_tries,    \* max_tries argument of the running retry_loop
    func,         \* retry_loop: the result func gives at its 1st, 2nd, ... call
    requests,     \* number of HTTP GET requests sent for the package being handled
    sigbytes,     \* parse_signature_data: the Signatures blob
    digest,       \* parse_signature_data: the digest argument
    sigret,       \* parse_signature_data: the value returned
    reader,       \* which read_delta_update_header the build has (see Variants)
    cfg,          \* DownloadVerify: input_xml, payload_url, take_first_match
    pkgs_to_dl,   \* DownloadVerify::run: the packages selected from the response
    disk,         \* output_dir: per package name the files .unverified/<name>
                  \* and <name>.raw of the packages that are not being handled
    idx,          \* DownloadVerify::run: index of the package being handled
    tmp_dir,      \* does the directory <output_dir>/.tmp exist
    run,          \* DownloadVerify::run: "none", "start", "running", "ok", "err"
    nr,           \* how many times DownloadVerify::run was started
    renamed,      \* number of fs::rename calls made since the run started
    hdrret,       \* read_delta_update_header: the value returned
    arg,          \* the arguments of the function run on its own
    out,          \* the value that function returned
    hod           \* hash_on_disk: the locals of the running call

\* the variables of the orchestrator, which the steps inside one package and
\* the functions run on their own leave alone
fvars == <<arg, out, hod>>

xvars == <<reader, cfg, pkgs_to_dl, disk, idx, tmp_dir, run, nr, hdrret, fvars>>

vars == <<pkg, status, unverified, blobs, final, pubkey_file, pc, ret, err,
          calls, max_tries, func, requests, sigbytes, digest, sigret,
          reader, cfg, pkgs_to_dl, disk, idx, tmp_dir, run, nr, renamed, hdrret,
          arg, out, hod>>

----------------------------------------------------------------------------
(* Bounds of the model *)

\* data region lengths of the artifacts run through the pipeline are 1..MaxData
MaxData == 2
\* hash_on_disk on its own reads files of up to MaxChunks * CHUNKLEN + 1 bytes
MaxChunks == 2
\* longest list of signature candidates given to parse_signature_data
MaxSigs == 3
\* largest max_tries given to retry_loop on its own
MaxTries == 4

----------------------------------------------------------------------------
(* Option<T> *)

None == <<>>
Some(x) == <<x>>
is_some(o) == o # <<>>
is_none(o) == o = <<>>
unwrap(o) == o[1]

Min(a, b) == IF a < b THEN a ELSE b
Max(a, b) == IF a < b THEN b ELSE a

\* u32 and u64 values are little-endian sequences of 16-bit limbs (two limbs
\* for u32, four for u64), so that the arithmetic keeps its width
Base == 65536

\* the limbs of a number below 2^31
ToLimbs(n, k) ==
    [i \in 1..k |-> IF i = 1 THEN n % Base ELSE IF i = 2 THEN n \div Base ELSE 0]
U32(n) == ToLimbs(n, 2)
U64(n) == ToLimbs(n, 4)

\* a + b: the carry into limb i, the sum modulo 2^(16 * Len(a)), and whether
\* the sum does not fit the width
RECURSIVE carry_into(_, _, _)
carry_into(a, b, i) ==
    IF i = 1 THEN 0 ELSE (a[i - 1] + b[i - 1] + carry_into(a, b, i - 1)) \div Base
wrapping_add(a, b) ==
    [i \in 1..Len(a) |-> (a[i] + b[i] + carry_into(a, b, i)) % Base]
overflowing_add(a, b) == carry_into(a, b, Len(a) + 1) = 1

\* a - b: the borrow from limb i, the difference modulo 2^(16 * Len(a)), and
\* whether the difference is negative
RECURSIVE borrow_from(_, _, _)
borrow_from(a, b, i) ==
    IF i = 1 THEN 0
    ELSE IF a[i - 1] - b[i - 1] - borrow_from(a, b, i - 1) < 0 THEN 1 ELSE 0
wrapping_sub(a, b) ==
    [i \in 1..Len(a) |-> (a[i] - b[i] - borrow_from(a, b, i) + Base) % Base]
overflowing_sub(a, b) == borrow_from(a, b, Len(a) + 1) = 1

\* a < b for two values of one width
less_than(a, b) == overflowing_sub(a, b)

----------------------------------------------------------------------------
(* Digests: omaha::Hasher, instantiated for Sha256 and Sha1 *)

Hash(alg, bytes) == [alg |-> alg, of |-> bytes]

----------------------------------------------------------------------------
(* CrAU artifacts *)

DELTA_UPDATE_HEADER_SIZE == 4 + 8 + 8
DELTA_UPDATE_FILE_MAGIC == <<"C", "r", "A", "U">>

\* the key whose public half is in the readable key file, and a foreign key
SigningKey == "key-A"
OtherKey == "key-B"

\* the image the data region of every artifact assembles to, and another one
Image == "image-1"
OtherImage == "image-0"

\* DeltaUpdateFileHeader::translate_offset
translate_offset(manifest_size, offset) ==
    DELTA_UPDATE_HEADER_SIZE + manifest_size + offset

\* the bytes of an artifact in front of the signatures blob: header, manifest
\* and data region
Body(magic, version, msize, datalen, sigoff, sigsize, pinfo) ==
    [magic |-> magic, file_format_version |-> version, manifest_size |-> msize,
     datalen |-> datalen, signatures_offset |-> sigoff,
     signatures_size |-> sigsize, new_partition_info_hash |-> pinfo,
     image |-> Image]

BodyLen(body) == translate_offset(body.manifest_size, body.datalen)

\* a Signatures blob of length 0
NoSigs == [wellformed |-> TRUE, signatures |-> <<>>]

\* the length of a signatures blob: one byte for each candidate, one byte for
\* a blob that does not decode
BlobLen(sigs) == IF sigs.wellformed THEN Len(sigs.signatures) ELSE 1

\* the first n bytes of a file: all of it, a part of the body, or the body
\* and the first bytes of the signatures blob
Bytes(f, n) ==
    IF n >= f.len THEN [body |-> f.body, sigs |-> f.sigs, n |-> f.len]
    ELSE IF n <= BodyLen(f.body) THEN [body |-> f.body, sigs |-> NoSigs, n |-> n]
    ELSE [body |-> f.body,
          sigs |-> [f.sigs EXCEPT !.signatures = SubSeq(@, 1, n - BodyLen(f.body))],
          n |-> n]

\* the signature pre-image of a body: its own bytes
PreImage(body) == [body |-> body, sigs |-> NoSigs, n |-> BodyLen(body)]

\* one candidate of the Signatures message, by kind
Candidate(kind, body) ==
    CASE kind = "valid" ->
           [data |-> Some([key |-> SigningKey, over |-> Hash("sha256", PreImage(body))])]
      [] kind = "wrongkey" ->
           [data |-> Some([key |-> OtherKey, over |-> Hash("sha256", PreImage(body))])]
      [] kind = "wrongdigest" ->
           [data |-> Some([key |-> SigningKey,
                         over |-> Hash("sha256", [PreImage(body) EXCEPT !.n = 0])])]
      [] OTHER -> [data |-> None]

CandidateKinds == {"valid", "wrongkey", "wrongdigest", "empty"}

\* a Signatures blob: a protobuf message, or bytes that do not decode
Signatures(kinds, body) ==
    [wellformed |-> TRUE,
     signatures |-> [i \in 1..Len(kinds) |-> Candidate(kinds[i], body)]]
Garbage == [wellformed |-> FALSE, signatures |-> <<>>]

\* a file: body, then the signatures blob; len is its size on disk
File(body, sigs) ==
    [body |-> body, sigs |-> sigs, len |-> BodyLen(body) + BlobLen(sigs)]

\* a well-formed artifact with the given signature candidates
Artifact(datalen, kinds) ==
    LET body == Body(DELTA_UPDATE_FILE_MAGIC, 1, 1, datalen, Some(datalen),
                     Some(Len(kinds)), Some(Hash("sha256", Image)))
    IN File(body, Signatures(kinds, body))

\* an artifact that differs from the well-formed one with one valid signature
\* in its header or manifest.  "short" and "short+sig" announce the signatures
\* one byte behind the data region: the first has no signatures blob and ends
\* in front of the announced offset, the second ends at it.  "early"
\* announces them one byte in front of the end of the data region.
Defect(datalen, what) ==
    LET magic == IF what = "magic" THEN <<"X", "r", "A", "U">> ELSE DELTA_UPDATE_FILE_MAGIC
        version == IF what = "version" THEN 2 ELSE 1
        sigoff == CASE what \in {"nosigoff", "nosigfields"} -> None
                    [] what \in {"short", "short+sig"} -> Some(datalen + 1)
                    [] what = "early" -> Some(datalen - 1)
                    [] OTHER -> Some(datalen)
        sigsize == CASE what \in {"nosigsize", "nosigfields"} -> None
                     [] what = "short" -> Some(0)
                     [] OTHER -> Some(1)
        pinfo == CASE what = "nopinfo" -> None
                   [] what \in {"pinfo", "pinfo+sig"} -> Some(Hash("sha256", OtherImage))
                   [] OTHER -> Some(Hash("sha256", Image))
        body == Body(magic, version, 1, datalen, sigoff, sigsize, pinfo)
    IN File(body, IF what = "garbage" THEN Garbage
                  ELSE IF what = "short" THEN Signatures(<<>>, body)
                  ELSE IF what = "pinfo+sig" THEN Signatures(<<"wrongkey">>, body)
                  ELSE Signatures(<<"valid">>, body))

DefectKinds == {"magic", "version", "nosigoff", "nosigsize", "nosigfields",
                "nopinfo", "pinfo", "pinfo+sig", "garbage",
                "short", "short+sig", "early"}

SigLists == {<<>>, <<"valid">>, <<"empty">>, <<"wrongkey">>, <<"wrongdigest">>,
             <<"wrongkey", "valid">>, <<"empty", "valid">>,
             <<"wrongdigest", "wrongkey">>}

\* the artifacts verify_signature_on_disk is run on
Artifacts ==
    {Artifact(d, k) : d \in 1..MaxData, k \in SigLists}
    \cup {Defect(d, w) : d \in 1..MaxData, w \in DefectKinds}

\* the files that occur on disk and on the server in the pipeline
PipelineFiles ==
    {Artifact(d, <<"valid">>) : d \in 1..MaxData}
    \cup {Artifact(1, <<"wrongkey">>), Defect(1, "pinfo"), Defect(MaxData, "magic")}

\* what File::create leaves when no byte of the body was copied
EmptyFile ==
    [body |-> Body(<<>>, 0, 0, 0, None, None, None), sigs |-> Garbage, len |-> 0]

----------------------------------------------------------------------------
(* update-format-crau: delta_update *)

\* The repository holds two versions of the delta_update module; the header
\* reader differs in the buffer the magic is read into: a [u8; 4] array in
\* delta_update.rs, a Vec created by with_capacity(4), whose length is 0, in
\* delta_update/mod.rs.
Variants == {"delta_update.rs", "delta_update/mod.rs"}
MagicBufLen(variant) == IF variant = "delta_update.rs" THEN 4 ELSE 0

Ok(v) == [ok |-> TRUE, val |-> v, err |-> ""]
Err(e) == [ok |-> FALSE, val |-> <<>>, err |-> e]

\* read_delta_update_header: Ok(manifest_size) or an error
read_delta_update_header(variant, f) ==
    IF Len(f.body.magic) < MagicBufLen(variant) THEN Err("ReadHeaderMagic")
    ELSE IF SubSeq(f.body.magic, 1, MagicBufLen(variant)) # DELTA_UPDATE_FILE_MAGIC
         THEN Err("BadHeaderMagic")
    ELSE IF f.body.file_format_version # 1 THEN Err("UnsupportedFileFormatVersion")
    ELSE Ok(f.body.manifest_size)

\* get_manifest_bytes: the decoded DeltaArchiveManifest
get_manifest_bytes(f, manifest_size) ==
    Ok([signatures_offset |-> f.body.signatures_offset,
        signatures_size |-> f.body.signatures_size,
        new_partition_info_hash |-> f.body.new_partition_info_hash])

\* get_signatures_bytes: signatures_size bytes read by read_exact_at at
\* translate_offset(sig_offset).  A read of no byte succeeds wherever it is;
\* bytes that are not the signatures blob of the file are taken not to decode.
get_signatures_bytes(f, manifest_size, manifest) ==
    IF is_some(manifest.signatures_offset) /\ is_some(manifest.signatures_size)
    THEN LET offset == translate_offset(manifest_size, unwrap(manifest.signatures_offset))
             size == unwrap(manifest.signatures_size)
         IN IF size > 0 /\ offset + size > f.len THEN Err("ReadSignature")
            ELSE IF size = 0 THEN Ok(NoSigs)
            ELSE IF offset = BodyLen(f.body) /\ size = BlobLen(f.sigs) THEN Ok(f.sigs)
            ELSE Ok(Garbage)
    ELSE IF is_some(manifest.signatures_offset) THEN Err("MissingSignatureSize")
    ELSE IF is_some(manifest.signatures_size) THEN Err("MissingSignatureOffset")
    ELSE Err("MissingSignatureOffsetAndSize")

\* get_header_data_length
get_header_data_length(manifest_size, manifest) ==
    IF is_none(manifest.signatures_offset) THEN Err("MissingSignatureOffset")
    ELSE Ok(translate_offset(manifest_size, unwrap(manifest.signatures_offset)))

\* get_data_blobs: the image written to tmpfile
get_data_blobs(f, manifest_size, manifest) == Ok(f.body.image)

----------------------------------------------------------------------------
(* update-format-crau: verify_sig, and the signature list *)

KeyFile == "public_key.pem"
MissingKeyFile == "missing.pem"

\* get_public_key_pkcs_pem: the key in the file, or an error
get_public_key_pkcs_pem(path) ==
    IF path = KeyFile THEN Ok(SigningKey) ELSE Err("ReadPublicKey")

\* verify_rsa_pkcs_prehash that does not compare the digest
verify_rsa_pkcs_prehash_any_digest(digestbuf, signature, public_key) ==
    signature.key = public_key

\* verify_rsa_pkcs_prehash
verify_rsa_pkcs_prehash(digestbuf, signature, public_key) ==
    signature.key = public_key /\ signature.over = digestbuf

\* verify_sig_pubkey that takes a candidate without data for verified
verify_sig_pubkey_accepts_empty(dig, sig, pubkeyfile) ==
    IF is_none(sig.data) THEN Ok(<<>>)
    ELSE LET key == get_public_key_pkcs_pem(pubkeyfile)
         IN IF ~key.ok THEN Err("GetPkcs8PemPubKey")
            ELSE IF ~verify_rsa_pkcs_prehash(dig, unwrap(sig.data), key.val)
                 THEN Err("VerifyPkcsSignature")
            ELSE Ok(unwrap(sig.data))

\* verify_sig_pubkey
verify_sig_pubkey(dig, sig, pubkeyfile) ==
    IF is_none(sig.data) THEN Err("EmptySignature")
    ELSE LET key == get_public_key_pkcs_pem(pubkeyfile)
         IN IF ~key.ok THEN Err("GetPkcs8PemPubKey")
            ELSE IF ~verify_rsa_pkcs_prehash(dig, unwrap(sig.data), key.val)
                 THEN Err("VerifyPkcsSignature")
            ELSE Ok(unwrap(sig.data))

\* the loop of parse_signature_data, giving up at the first candidate that
\* does not verify
first_valid_gives_up(signatures, i, dig, pubkeyfile) ==
    IF i > Len(signatures) THEN Err("NoValidSignature")
    ELSE LET r == verify_sig_pubkey(dig, signatures[i], pubkeyfile)
         IN IF r.ok THEN r ELSE Err("NoValidSignature")

\* the loop of parse_signature_data over the candidates from index i on
RECURSIVE first_valid(_, _, _, _)
first_valid(signatures, i, dig, pubkeyfile) ==
    IF i > Len(signatures) THEN Err("NoValidSignature")
    ELSE LET r == verify_sig_pubkey(dig, signatures[i], pubkeyfile)
         IN IF r.ok THEN r ELSE first_valid(signatures, i + 1, dig, pubkeyfile)

\* parse_signature_data
parse_signature_data(blob, dig, pubkeyfile) ==
    IF ~blob.wellformed THEN Err("ParseSignatures")
    ELSE first_valid(blob.signatures, 1, dig, pubkeyfile)

----------------------------------------------------------------------------
(* src/download: PackageStatus, hash_on_disk, Package *)

St(tag) == [tag |-> tag, n |-> 0]
ToDownload == St("ToDownload")
DownloadIncomplete(n) == [tag |-> "DownloadIncomplete", n |-> n]
DownloadFailed == St("DownloadFailed")
BadChecksum == St("BadChecksum")
Unverified == St("Unverified")
BadSignature == St("BadSignature")
Verified == St("Verified")

\* hash_on_disk that reads no byte when a maxlen is given
hash_on_disk_reads_nothing(alg, f, maxlen) ==
    Hash(alg, Bytes(f, IF is_some(maxlen) THEN 0 ELSE f.len))

\* hash_on_disk::<T>(path, maxlen) for an existing file
hash_on_disk(alg, f, maxlen) ==
    LET filelen == f.len
        maxlen_to_read == IF is_some(maxlen)
                          THEN (IF filelen < unwrap(maxlen) THEN filelen ELSE unwrap(maxlen))
                          ELSE filelen
    IN Hash(alg, Bytes(f, maxlen_to_read))

\* verify_checksum that reports a mismatch only when both digests differ
verify_checksum_both(p, calculated_sha256, calculated_sha1) ==
    IF (is_some(p.hash_sha256) /\ p.hash_sha256 # Some(calculated_sha256))
       /\ (is_some(p.hash_sha1) /\ p.hash_sha1 # Some(calculated_sha1))
    THEN [ok |-> FALSE, status |-> BadChecksum]
    ELSE [ok |-> TRUE, status |-> Unverified]

\* Package::verify_checksum: the value returned and the status it sets
verify_checksum(p, calculated_sha256, calculated_sha1) ==
    IF (is_some(p.hash_sha256) /\ p.hash_sha256 # Some(calculated_sha256))
       \/ (is_some(p.hash_sha1) /\ p.hash_sha1 # Some(calculated_sha1))
    THEN [ok |-> FALSE, status |-> BadChecksum]
    ELSE [ok |-> TRUE, status |-> Unverified]

\* check_download that keeps the status verify_checksum set on a mismatch
check_download_keeps_bad_checksum(p, st, file) ==
    IF is_none(file) THEN st
    ELSE LET size_on_disk == unwrap(file).len
             expected_size == p.size
         IN IF size_on_disk < expected_size THEN DownloadIncomplete(size_on_disk)
            ELSE IF size_on_disk = expected_size
                 THEN verify_checksum(p, hash_on_disk("sha256", unwrap(file), None),
                                      hash_on_disk("sha1", unwrap(file), None)).status
            ELSE st

\* Package::check_download: the status when it returns
check_download(p, st, file) ==
    IF is_none(file) THEN st
    ELSE LET size_on_disk == unwrap(file).len
             expected_size == p.size
         IN IF size_on_disk < expected_size THEN DownloadIncomplete(size_on_disk)
            ELSE IF size_on_disk = expected_size
                 THEN LET hash_sha256 == hash_on_disk("sha256", unwrap(file), None)
                          hash_sha1 == hash_on_disk("sha1", unwrap(file), None)
                          c == verify_checksum(p, hash_sha256, hash_sha1)
                      IN IF c.ok THEN c.status ELSE ToDownload
            ELSE st

\* Package::verify_signature_on_disk: result, status and the tmp file it leaves
verify_signature_on_disk(variant, st, file, tmp, pubkey_path) ==
    IF is_none(file) THEN [ok |-> FALSE, err |-> "open", status |-> st, blobs |-> tmp]
    ELSE
    LET f == unwrap(file)
        header == read_delta_update_header(variant, f)
        manifest == get_manifest_bytes(f, header.val).val
        sigs == get_signatures_bytes(f, header.val, manifest)
        header_data_length == get_header_data_length(header.val, manifest)
        hdhash == hash_on_disk("sha256", f, Some(header_data_length.val))
        image == get_data_blobs(f, header.val, manifest)
        pinfo_hash == manifest.new_partition_info_hash
        datahash == Hash("sha256", image.val)
        parsed == parse_signature_data(sigs.val, hdhash, pubkey_path)
    IN IF ~header.ok THEN [ok |-> FALSE, err |-> header.err, status |-> st, blobs |-> tmp]
       ELSE IF ~sigs.ok THEN [ok |-> FALSE, err |-> sigs.err, status |-> st, blobs |-> tmp]
       ELSE IF ~header_data_length.ok
            THEN [ok |-> FALSE, err |-> header_data_length.err, status |-> st, blobs |-> tmp]
       ELSE IF is_none(pinfo_hash)
            THEN [ok |-> FALSE, err |-> "unable to get new_partition_info hash",
                  status |-> st, blobs |-> Some(image.val)]
       ELSE IF Some(datahash) # pinfo_hash
            THEN [ok |-> FALSE, err |-> "mismatch of data hash",
                  status |-> st, blobs |-> Some(image.val)]
       ELSE IF ~parsed.ok
            THEN [ok |-> FALSE, err |-> "unable to parse and verify signature",
                  status |-> BadSignature, blobs |-> Some(image.val)]
       ELSE [ok |-> TRUE, err |-> "", status |-> Verified, blobs |-> Some(image.val)]

----------------------------------------------------------------------------
(* src/download/mod.rs: do_download_and_hash, and src/util.rs: retry_loop *)

MAX_DOWNLOAD_RETRY == 20

\* what one GET can bring: no response, a status without body, or status 200
\* with a body that is read completely or breaks off
Responses ==
    {[kind |-> "neterr", code |-> 0, body |-> None]}
    \cup {[kind |-> "status", code |-> c, body |-> None] : c \in {403, 404, 500}}
    \cup {[kind |-> "body", code |-> 200, body |-> Some(f)] : f \in PipelineFiles}
    \cup {[kind |-> "broken", code |-> 200, body |-> None]}

\* do_download_and_hash that opens an existing file at path without
\* truncating it and leaves its content
do_download_and_hash_keeps_existing(r, file, expected_sha256, expected_sha1) ==
    IF r.kind = "neterr" THEN [ok |-> FALSE, err |-> "client get & send failed", file |-> file]
    ELSE IF r.kind = "status"
         THEN IF r.code \in {403, 404}
              THEN [ok |-> FALSE, err |-> "cannnot fetch remotely with status code", file |-> file]
              ELSE [ok |-> FALSE, err |-> "general failure with status code", file |-> file]
    ELSE IF r.kind = "broken"
         THEN [ok |-> FALSE, err |-> "copy_to",
               file |-> IF is_some(file) THEN file ELSE Some(EmptyFile)]
    ELSE LET f == unwrap(r.body)
             kept == IF is_some(file) THEN file ELSE Some(f)
             calculated_sha256 == hash_on_disk("sha256", f, None)
             calculated_sha1 == hash_on_disk("sha1", f, None)
         IN IF is_some(expected_sha256) /\ expected_sha256 # Some(calculated_sha256)
            THEN [ok |-> FALSE, err |-> "checksum mismatch for sha256", file |-> kept]
            ELSE IF is_some(expected_sha1) /\ expected_sha1 # Some(calculated_sha1)
            THEN [ok |-> FALSE, err |-> "checksum mismatch for sha1", file |-> kept]
            ELSE [ok |-> TRUE, err |-> "", file |-> kept]

\* do_download_and_hash: result and the file at path afterwards
do_download_and_hash(r, file, expected_sha256, expected_sha1) ==
    IF r.kind = "neterr" THEN [ok |-> FALSE, err |-> "client get & send failed", file |-> file]
    ELSE IF r.kind = "status"
         THEN IF r.code \in {403, 404}
              THEN [ok |-> FALSE, err |-> "cannnot fetch remotely with status code", file |-> file]
              ELSE [ok |-> FALSE, err |-> "general failure with status code", file |-> file]
    ELSE IF r.kind = "broken"
         THEN [ok |-> FALSE, err |-> "copy_to", file |-> Some(EmptyFile)]
    ELSE LET f == unwrap(r.body)
             calculated_sha256 == hash_on_disk("sha256", f, None)
             calculated_sha1 == hash_on_disk("sha1", f, None)
         IN IF is_some(expected_sha256) /\ expected_sha256 # Some(calculated_sha256)
            THEN [ok |-> FALSE, err |-> "checksum mismatch for sha256", file |-> Some(f)]
            ELSE IF is_some(expected_sha1) /\ expected_sha1 # Some(calculated_sha1)
            THEN [ok |-> FALSE, err |-> "checksum mismatch for sha1", file |-> Some(f)]
            ELSE [ok |-> TRUE, err |-> "", file |-> Some(f)]

\* retry_loop whose for loop runs max_tries times
retry_loop_returns_one_more(n, tries, ok) ==
    IF n < tries THEN ok ELSE TRUE

\* retry_loop: does the loop return after a call of func with this result,
\* when n calls were made before it.  max_tries is a u32 and the bound of the
\* for loop is `max_tries - 1`, which a build without overflow checks
\* computes modulo 2^32
retry_loop_returns(n, tries, ok) ==
    IF less_than(U32(n), wrapping_sub(U32(tries), U32(1))) THEN ok ELSE TRUE

----------------------------------------------------------------------------
(* The per-package pipeline do_download_verify *)

Sizes == {f.len : f \in PipelineFiles}

\* the Package get_pkgs_to_download builds for a response that announces the
\* file want with the given digests and size; a package without any digest is
\* skipped there
PackageFor(want, with_sha256, with_sha1, size) ==
    [hash_sha256 |-> IF with_sha256 THEN Some(hash_on_disk("sha256", want, None)) ELSE None,
     hash_sha1 |-> IF with_sha1 THEN Some(hash_on_disk("sha1", want, None)) ELSE None,
     size |-> size]

Packages ==
    {PackageFor(w, a, b, n) : w \in PipelineFiles,
                              a \in BOOLEAN, b \in BOOLEAN, n \in Sizes}
    \ {PackageFor(w, FALSE, FALSE, n) : w \in PipelineFiles, n \in Sizes}

Idle ==
    /\ calls = 0 /\ max_tries = 0 /\ func = <<>>
    /\ sigbytes = NoSigs /\ digest = None /\ sigret = Err("")

\* no DownloadVerify::run is under way
NoConfig ==
    [entry |-> "none", input_xml |-> None, payload_url |-> None,
     target_filename |-> None, take_first_match |-> FALSE]

\* no function is run on its own
NoHash ==
    [alg |-> "none", filelen |-> 0, maxlen |-> <<>>, maxlen_to_read |-> 0,
     databuf |-> 0, fed |-> <<>>]

NoCall == arg = <<>> /\ out = Err("") /\ hod = NoHash

NoRun ==
    /\ cfg = NoConfig /\ pkgs_to_dl = <<>> /\ disk = <<>> /\ idx = 0
    /\ tmp_dir = TRUE /\ run = "none" /\ nr = 0 /\ renamed = 0
    /\ hdrret = Err("")
    /\ NoCall

Init ==
    /\ pkg \in Packages
    /\ status = ToDownload
    /\ unverified \in {None} \cup {Some(f) : f \in PipelineFiles}
    /\ blobs = None
    /\ final \in {None, Some(OtherImage)}
    /\ pubkey_file \in {KeyFile, MissingKeyFile}
    /\ pc = "check_download"
    /\ ret = "none" /\ err = "" /\ requests = 0
    /\ Idle
    /\ reader \in Variants
    /\ NoRun

\* pkg.check_download(unverified_dir)?
CheckDownload ==
    /\ pc = "check_download"
    /\ status' = check_download(pkg, status, unverified)
    /\ ret' = "ok"
    /\ pc' = "download"
    /\ UNCHANGED <<pkg, unverified, blobs, final, pubkey_file, err, calls,
                   max_tries, func, requests, sigbytes, digest, sigret>>
    /\ UNCHANGED <<xvars, renamed>>

\* Package::download that returns at once in these statuses, but resets the
\* status for a later download
DownloadSkip_resets ==
    /\ pc = "download"
    /\ status.tag \notin {"ToDownload", "DownloadIncomplete"}
    /\ status' = ToDownload
    /\ ret' = "ok"
    /\ pc' = "verify"
    /\ UNCHANGED <<pkg, unverified, blobs, final, pubkey_file, err,
                   calls, max_tries, func, requests, sigbytes, digest, sigret>>
    /\ UNCHANGED <<xvars, renamed>>

\* Package::download in a status other than ToDownload, DownloadIncomplete
DownloadSkip ==
    /\ pc = "download"
    /\ status.tag \notin {"ToDownload", "DownloadIncomplete"}
    /\ ret' = "ok"
    /\ pc' = "verify"
    /\ UNCHANGED <<pkg, status, unverified, blobs, final, pubkey_file, err,
                   calls, max_tries, func, requests, sigbytes, digest, sigret>>
    /\ UNCHANGED <<xvars, renamed>>

\* Package::download entering download_and_hash, i.e. retry_loop
DownloadStart ==
    /\ pc = "download"
    /\ status.tag \in {"ToDownload", "DownloadIncomplete"}
    /\ pc' = "download_and_hash"
    /\ calls' = 0
    /\ max_tries' = MAX_DOWNLOAD_RETRY
    /\ UNCHANGED <<pkg, status, unverified, blobs, final, pubkey_file, ret, err,
                   func, requests, sigbytes, digest, sigret>>
    /\ UNCHANGED <<xvars, renamed>>

\* one call of do_download_and_hash by retry_loop, and the return of
\* download_and_hash and Package::download when the loop ends with it
DoDownloadAndHash ==
    /\ pc = "download_and_hash"
    /\ \E r \in Responses :
         LET d == do_download_and_hash(r, unverified, pkg.hash_sha256, pkg.hash_sha1)
         IN /\ unverified' = d.file
            /\ requests' = requests + 1
            /\ calls' = calls + 1
            /\ err' = d.err
            /\ IF retry_loop_returns(calls, max_tries, d.ok)
               THEN IF d.ok
                    THEN status' = Unverified /\ ret' = "ok" /\ pc' = "verify"
                    ELSE status' = DownloadFailed /\ ret' = "err"
                         /\ pc' = "failed_download"
               ELSE UNCHANGED <<status, ret, pc>>
    /\ UNCHANGED <<pkg, blobs, final, pubkey_file, max_tries, func, sigbytes,
                   digest, sigret>>
    /\ UNCHANGED <<xvars, renamed>>

\* do_download_verify that goes on to the rename when the verification failed
VerifySignatureOnDisk_unchecked ==
    /\ pc = "verify"
    /\ LET v == verify_signature_on_disk(reader, status, unverified, blobs, pubkey_file)
       IN   /\ status' = v.status
            /\ blobs' = v.blobs
            /\ err' = v.err
            /\ ret' = IF v.ok THEN "ok" ELSE "err"
            /\ pc' = "rename"
    /\ UNCHANGED <<pkg, unverified, final, pubkey_file, calls, max_tries, func,
                   requests, sigbytes, digest, sigret>>
    /\ UNCHANGED <<xvars, renamed>>

\* pkg.verify_signature_on_disk(&pkg_unverified, pubkey_file)?
VerifySignatureOnDisk ==
    /\ pc = "verify"
    /\ LET v == verify_signature_on_disk(reader, status, unverified, blobs, pubkey_file)
       IN   /\ status' = v.status
            /\ blobs' = v.blobs
            /\ err' = v.err
            /\ ret' = IF v.ok THEN "ok" ELSE "err"
            /\ pc' = IF v.ok THEN "rename" ELSE "failed_verify"
    /\ UNCHANGED <<pkg, unverified, final, pubkey_file, calls, max_tries, func,
                   requests, sigbytes, digest, sigret>>
    /\ UNCHANGED <<xvars, renamed>>

\* fs::rename(datablobspath, pkg_verified)?; Ok(())
Rename ==
    /\ pc = "rename"
    /\ final' = blobs
    /\ blobs' = None
    /\ ret' = "ok"
    /\ pc' = "done"
    /\ renamed' = renamed + 1
    /\ UNCHANGED <<pkg, status, unverified, pubkey_file, err, calls, max_tries,
                   func, requests, sigbytes, digest, sigret>>
    /\ UNCHANGED xvars

Next ==
    \/ CheckDownload
    \/ DownloadSkip
    \/ DownloadStart
    \/ DoDownloadAndHash
    \/ VerifySignatureOnDisk
    \/ Rename

Spec == Init /\ [][Next]_vars

----------------------------------------------------------------------------
(* verify_signature_on_disk on its own, on every kind of artifact; the      *)
(* pipeline calls it with status Unverified only                           *)

AnyPackage == PackageFor(Artifact(1, <<"valid">>), TRUE, TRUE, Artifact(1, <<"valid">>).len)

InitVerify ==
    /\ pkg = AnyPackage
    /\ status = Unverified
    /\ unverified \in {Some(f) : f \in Artifacts}
    /\ blobs = None
    /\ final = None
    /\ pubkey_file \in {KeyFile, MissingKeyFile}
    /\ pc = "verify"
    /\ ret = "none" /\ err = "" /\ requests = 0
    /\ Idle
    /\ reader \in Variants
    /\ NoRun

NextVerify == VerifySignatureOnDisk

SpecVerify == InitVerify /\ [][NextVerify]_vars

----------------------------------------------------------------------------
(* parse_signature_data on its own *)

\* the lists of at most n candidate kinds
KindLists(n) == UNION {[1..k -> CandidateKinds] : k \in 0..n}

SigBody == Artifact(1, <<>>).body
SigDigests == {Hash("sha256", PreImage(SigBody)),
               Hash("sha256", [PreImage(SigBody) EXCEPT !.n = 0])}

InitSig ==
    /\ pkg = AnyPackage
    /\ status = Unverified
    /\ unverified = None /\ blobs = None /\ final = None
    /\ pubkey_file \in {KeyFile, MissingKeyFile}
    /\ pc = "parse_signature_data"
    /\ ret = "none" /\ err = "" /\ requests = 0
    /\ calls = 0 /\ max_tries = 0 /\ func = <<>>
    /\ sigbytes \in {Signatures(k, SigBody) : k \in KindLists(MaxSigs)} \cup {Garbage}
    /\ digest \in SigDigests
    /\ sigret = Err("")
    /\ reader = "delta_update/mod.rs"
    /\ NoRun

ParseSignatureData ==
    /\ pc = "parse_signature_data"
    /\ sigret' = parse_signature_data(sigbytes, digest, pubkey_file)
    /\ pc' = "parsed"
    /\ UNCHANGED <<pkg, status, unverified, blobs, final, pubkey_file, ret, err,
                   calls, max_tries, func, requests, sigbytes, digest>>
    /\ UNCHANGED <<xvars, renamed>>

NextSig == ParseSignatureData

SpecSig == InitSig /\ [][NextSig]_vars

----------------------------------------------------------------------------
(* retry_loop on its own, for a func whose results are fixed in advance *)

Results == {Ok("value"), Err("error-1"), Err("error-2")}

InitRetry ==
    /\ pkg = AnyPackage
    /\ status = ToDownload
    /\ unverified = None /\ blobs = None /\ final = None
    /\ pubkey_file = KeyFile
    /\ pc = "retry_loop"
    /\ ret = "none" /\ err = "" /\ requests = 0
    /\ calls = 0
    /\ max_tries \in 1..MaxTries
    /\ func \in [1..MaxTries -> Results]
    /\ sigbytes = NoSigs /\ digest = None /\ sigret = Err("")
    /\ reader = "delta_update/mod.rs"
    /\ NoRun

\* one call of func by retry_loop, and the return of retry_loop when the
\* loop ends with it
RetryLoopCall ==
    /\ pc = "retry_loop"
    /\ calls + 1 \in DOMAIN func
    /\ LET r == func[calls + 1]
       IN /\ calls' = calls + 1
          /\ IF retry_loop_returns(calls, max_tries, r.ok)
             THEN /\ pc' = "returned"
                  /\ ret' = IF r.ok THEN "ok" ELSE "err"
                  /\ err' = r.err
             ELSE UNCHANGED <<pc, ret, err>>
    /\ UNCHANGED <<pkg, status, unverified, blobs, final, pubkey_file, max_tries,
                   func, requests, sigbytes, digest, sigret>>
    /\ UNCHANGED <<xvars, renamed>>

NextRetry == RetryLoopCall

SpecRetry == InitRetry /\ [][NextRetry]_vars

\* retry_loop for every max_tries from 0 on.  The results of func are fixed for
\* its first MaxTries calls; a loop that goes on after them is not followed
\* further.
InitRetryU32 ==
    /\ pkg = AnyPackage
    /\ status = ToDownload
    /\ unverified = None /\ blobs = None /\ final = None
    /\ pubkey_file = KeyFile
    /\ pc = "retry_loop"
    /\ ret = "none" /\ err = "" /\ requests = 0
    /\ calls = 0
    /\ max_tries \in 0..MaxTries
    /\ func \in [1..MaxTries -> Results]
    /\ sigbytes = NoSigs /\ digest = None /\ sigret = Err("")
    /\ reader = "delta_update/mod.rs"
    /\ NoRun

\* `0..max_tries - 1` in a build with overflow checks: the subtraction panics
\* when it underflows
RetryLoopOverflow ==
    /\ pc = "retry_loop"
    /\ calls = 0
    /\ overflowing_sub(U32(max_tries), U32(1))
    /\ pc' = "panicked"
    /\ err' = "attempt to subtract with overflow"
    /\ UNCHANGED <<pkg, status, unverified, blobs, final, pubkey_file, ret, calls,
                   max_tries, func, requests, sigbytes, digest, sigret>>
    /\ UNCHANGED <<xvars, renamed>>

NextRetryU32 == RetryLoopOverflow \/ RetryLoopCall

SpecRetryU32 == InitRetryU32 /\ [][NextRetryU32]_vars

----------------------------------------------------------------------------
(* check_download followed by the entry of download, for a package in any   *)
(* status                                                                  *)

Statuses ==
    {ToDownload, DownloadFailed, BadChecksum, Unverified, BadSignature, Verified}
    \cup {DownloadIncomplete(n) : n \in {0} \cup Sizes}

InitCheck ==
    /\ pkg \in Packages
    /\ status \in Statuses
    /\ unverified \in {None} \cup {Some(f) : f \in PipelineFiles}
    /\ blobs = None
    /\ final = None
    /\ pubkey_file = KeyFile
    /\ pc = "check_download"
    /\ ret = "none" /\ err = "" /\ requests = 0
    /\ Idle
    /\ reader = "delta_update/mod.rs"
    /\ NoRun

NextCheck ==
    \/ CheckDownload
    \/ DownloadSkip
    \/ DownloadStart

SpecCheck == InitCheck /\ [][NextCheck]_vars

----------------------------------------------------------------------------
(* The paths do_download_verify works on, for any package name.  A path is   *)
(* what Path::components() yields: whether it starts at the root, and its    *)
(* components, each a file name with its extension split off or "..".       *)

Normal(stem, ext) == [stem |-> stem, ext |-> ext]
ParentDir == Normal("..", "")
PathOf(abs, comps) == [abs |-> abs, comps |-> comps]

\* Path::join: an absolute argument replaces the path
join(base, p) ==
    IF p.abs THEN p ELSE PathOf(base.abs, base.comps \o p.comps)

\* Path::parent: the path without its last component, whatever that is
parent(p) ==
    IF p.comps = <<>> THEN None
    ELSE Some(PathOf(p.abs, SubSeq(p.comps, 1, Len(p.comps) - 1)))

\* Path::file_name: None when the path ends in ".." or has no component
file_name(p) ==
    IF p.comps = <<>> \/ p.comps[Len(p.comps)] = ParentDir THEN None
    ELSE Some(p.comps[Len(p.comps)])

\* Path::with_extension: the extension of the file name is replaced; a path
\* without file name is left as it is
with_extension(p, ext) ==
    IF is_none(file_name(p)) THEN p
    ELSE PathOf(p.abs, [p.comps EXCEPT ![Len(p.comps)] = Normal(@.stem, ext)])

output_dir == PathOf(TRUE, <<Normal("out", "")>>)
UNVERFIED_SUFFIX == PathOf(FALSE, <<Normal(".unverified", "")>>)
TMP_SUFFIX == PathOf(FALSE, <<Normal(".tmp", "")>>)

\* do_download_verify: the path of the verified output of the package of the
\* given name, output_filename when there is one, else the file name of the
\* download with the extension "raw"
pkg_verified(name, output_filename) ==
    LET pkg_unverified == join(join(output_dir, UNVERFIED_SUFFIX), name)
        default_name == file_name(with_extension(pkg_unverified, "raw"))
    IN join(output_dir,
            IF is_some(output_filename) THEN unwrap(output_filename)
            ELSE PathOf(FALSE, default_name))

----------------------------------------------------------------------------
(* src/download/mod.rs: DownloadVerify::run, and the mode dispatch of the   *)
(* main function of bin/download_sysext.rs                                 *)

\* how many times in a row DownloadVerify::run is started on one output_dir
MaxRuns == 2

\* the package names of a response; the last path segment of the payload URL
Name(stem, ext) == PathOf(FALSE, <<Normal(stem, ext)>>)
Names == {Name("a", "gz"), Name("b", "gz"), Name("a", "bz")}
UrlName == Name("a", "gz")

Wanted == Artifact(1, <<"valid">>)
Unsigned == Artifact(1, <<"wrongkey">>)
Second == Artifact(MaxData, <<"valid">>)

\* one <package> of the response: its name, what it announces, and whether
\* the glob set matches the name
Entry(name, p, matches) == [name |-> name, pkg |-> p, matches |-> matches]

EntriesA ==
    {Entry(Name("a", "gz"), PackageFor(Wanted, TRUE, TRUE, Wanted.len), TRUE),
     Entry(Name("a", "gz"), PackageFor(Wanted, TRUE, FALSE, Wanted.len + 1), TRUE),
     Entry(Name("a", "gz"), PackageFor(Unsigned, TRUE, TRUE, Unsigned.len), TRUE),
     Entry(Name("a", "gz"), PackageFor(Wanted, FALSE, FALSE, Wanted.len), TRUE),
     Entry(Name("a", "gz"), PackageFor(Wanted, TRUE, TRUE, Wanted.len), FALSE)}

EntriesB ==
    {Entry(Name("b", "gz"), PackageFor(Second, FALSE, TRUE, Second.len), TRUE),
     Entry(Name("b", "gz"), PackageFor(Unsigned, TRUE, TRUE, Unsigned.len), TRUE),
     Entry(Name("a", "bz"), PackageFor(Second, FALSE, TRUE, Second.len), TRUE)}

\* the packages of the parsed omaha::Response, in document order
XmlResponses ==
    {<<>>} \cup {<<a>> : a \in EntriesA}
    \cup {<<a, b>> : a \in EntriesA, b \in EntriesB}

\* input_xml is None for the empty string DownloadVerify::new leaves there
Configs ==
    [entry : {"DownloadVerify::run", "download_sysext"},
     input_xml : {None} \cup {Some(x) : x \in XmlResponses},
     payload_url : {None, Some("url")},
     target_filename : {None, Some(Name("target", "raw"))},
     take_first_match : BOOLEAN]

\* get_pkgs_to_download: the packages whose name matches and that carry a
\* digest, in the order of the response, each with status ToDownload
RECURSIVE get_pkgs_to_download(_)
get_pkgs_to_download(resp) ==
    IF resp = <<>> THEN <<>>
    ELSE LET e == Head(resp)
             rest == get_pkgs_to_download(Tail(resp))
         IN IF ~e.matches THEN rest
            ELSE IF is_none(e.pkg.hash_sha256) /\ is_none(e.pkg.hash_sha1) THEN rest
            ELSE <<[name |-> e.name, pkg |-> e.pkg, status |-> ToDownload]>> \o rest

\* the name of the package being handled
CurrentName == IF is_some(cfg.payload_url) THEN UrlName ELSE pkgs_to_dl[idx].name

\* the files of the package being handled, as they are when it is left; the
\* verified output is one file for every name do_download_verify gives the
\* same pkg_verified
Stored ==
    LET written == pkg_verified(CurrentName, cfg.target_filename)
    IN [n \in Names |->
          [unverified |-> IF n = CurrentName THEN unverified ELSE disk[n].unverified,
           final |-> IF pkg_verified(n, cfg.target_filename) = written
                     THEN final ELSE disk[n].final]]

InitRun ==
    /\ pkg = AnyPackage
    /\ status = ToDownload
    /\ unverified = None /\ blobs = None /\ final = None
    /\ pubkey_file \in {KeyFile, MissingKeyFile}
    /\ pc = "idle"
    /\ ret = "none" /\ err = "" /\ requests = 0
    /\ Idle
    /\ reader \in Variants
    /\ cfg \in Configs
    /\ pkgs_to_dl = <<>>
    /\ disk = [n \in Names |-> [unverified |-> None, final |-> None]]
    /\ idx = 0
    /\ tmp_dir = FALSE
    /\ run = "start"
    /\ nr = 0
    /\ renamed = 0
    /\ hdrret = Err("")
    /\ NoCall

\* main of download_sysext up to the choice of the mode
Main ==
    /\ pc = "idle" /\ run = "start"
    /\ cfg.entry = "download_sysext"
    /\ tmp_dir' = TRUE
    /\ nr' = nr + 1
    /\ IF is_some(cfg.input_xml) /\ is_some(cfg.payload_url)
       THEN /\ run' = "err" /\ pc' = "returned" /\ ret' = "err"
            /\ err' = "Only one of the options can be given, --input-xml or --payload-url."
       ELSE IF is_none(cfg.input_xml) /\ is_none(cfg.payload_url)
       THEN /\ run' = "err" /\ pc' = "returned" /\ ret' = "err"
            /\ err' = "Either --input-xml or --payload-url must be given."
       ELSE /\ run' = "running" /\ pc' = "main" /\ UNCHANGED <<ret, err>>
    /\ UNCHANGED <<pkg, status, unverified, blobs, final, pubkey_file, calls,
                   max_tries, func, requests, sigbytes, digest, sigret>>
    /\ UNCHANGED <<reader, cfg, pkgs_to_dl, disk, idx, renamed, hdrret, fvars>>

\* DownloadVerify::run from its entry to the first download or to the loop
\* over the packages
RunStart ==
    /\ pc = "idle" /\ run = "start"
    /\ cfg.entry = "DownloadVerify::run"
    /\ tmp_dir' = TRUE
    /\ nr' = nr + 1
    /\ renamed' = 0
    /\ requests' = 0
    /\ IF is_some(cfg.payload_url)
       THEN /\ run' = "running" /\ pc' = "fetch_url_to_file"
            /\ calls' = 0 /\ max_tries' = MAX_DOWNLOAD_RETRY
            /\ unverified' = disk[UrlName].unverified
            /\ final' = disk[UrlName].final
            /\ ret' = "none" /\ err' = ""
            /\ UNCHANGED pkgs_to_dl
       ELSE IF is_none(cfg.input_xml)
       THEN /\ run' = "err" /\ pc' = "returned"
            /\ ret' = "err" /\ err' = "omaha::Response::from_str"
            /\ UNCHANGED <<calls, max_tries, unverified, final, pkgs_to_dl>>
       ELSE /\ run' = "running" /\ pc' = "loop"
            /\ pkgs_to_dl' = get_pkgs_to_download(unwrap(cfg.input_xml))
            /\ ret' = "none" /\ err' = ""
            /\ UNCHANGED <<calls, max_tries, unverified, final>>
    /\ idx' = 0
    /\ UNCHANGED <<pkg, status, blobs, pubkey_file, func, sigbytes, digest, sigret>>
    /\ UNCHANGED <<reader, cfg, disk, hdrret, fvars>>

\* fetch_url_to_file that hands the package over as one still to download
FetchUrlToFile_to_download ==
    /\ pc = "fetch_url_to_file"
    /\ \E r \in Responses :
         LET d == do_download_and_hash(r, unverified, None, None)
         IN /\ unverified' = d.file
            /\ requests' = requests + 1
            /\ calls' = calls + 1
            /\ err' = d.err
            /\ IF retry_loop_returns(calls, max_tries, d.ok)
               THEN IF d.ok
                    THEN /\ pkg' = [hash_sha256 |-> Some(hash_on_disk("sha256", unwrap(d.file), None)),
                                    hash_sha1 |-> Some(hash_on_disk("sha1", unwrap(d.file), None)),
                                    size |-> unwrap(d.file).len]
                         /\ status' = ToDownload
                         /\ ret' = "ok" /\ pc' = "check_download"
                         /\ UNCHANGED <<run, disk>>
                    ELSE /\ run' = "err" /\ ret' = "err" /\ pc' = "returned"
                         /\ disk' = [disk EXCEPT ![UrlName].unverified = d.file]
                         /\ UNCHANGED <<pkg, status>>
               ELSE UNCHANGED <<pkg, status, ret, pc, run, disk>>
    /\ UNCHANGED <<blobs, final, pubkey_file, max_tries, func, sigbytes, digest, sigret>>
    /\ UNCHANGED <<reader, cfg, pkgs_to_dl, idx, tmp_dir, nr, renamed, hdrret, fvars>>

\* one call of do_download_and_hash by the retry_loop of fetch_url_to_file,
\* and the return of fetch_url_to_file when the loop ends with it
FetchUrlToFile ==
    /\ pc = "fetch_url_to_file"
    /\ \E r \in Responses :
         LET d == do_download_and_hash(r, unverified, None, None)
         IN /\ unverified' = d.file
            /\ requests' = requests + 1
            /\ calls' = calls + 1
            /\ err' = d.err
            /\ IF retry_loop_returns(calls, max_tries, d.ok)
               THEN IF d.ok
                    THEN /\ pkg' = [hash_sha256 |-> Some(hash_on_disk("sha256", unwrap(d.file), None)),
                                    hash_sha1 |-> Some(hash_on_disk("sha1", unwrap(d.file), None)),
                                    size |-> unwrap(d.file).len]
                         /\ status' = Unverified
                         /\ ret' = "ok" /\ pc' = "check_download"
                         /\ UNCHANGED <<run, disk>>
                    ELSE /\ run' = "err" /\ ret' = "err" /\ pc' = "returned"
                         /\ disk' = [disk EXCEPT ![UrlName].unverified = d.file]
                         /\ UNCHANGED <<pkg, status>>
               ELSE UNCHANGED <<pkg, status, ret, pc, run, disk>>
    /\ UNCHANGED <<blobs, final, pubkey_file, max_tries, func, sigbytes, digest, sigret>>
    /\ UNCHANGED <<reader, cfg, pkgs_to_dl, idx, tmp_dir, nr, renamed, hdrret, fvars>>

\* the head of the for loop over pkgs_to_dl: the next package enters
\* do_download_verify, or the loop is over and run removes .tmp and returns
RunLoop ==
    /\ pc = "loop"
    /\ IF idx < Len(pkgs_to_dl)
       THEN /\ idx' = idx + 1
            /\ pkg' = pkgs_to_dl[idx + 1].pkg
            /\ status' = pkgs_to_dl[idx + 1].status
            /\ unverified' = disk[pkgs_to_dl[idx + 1].name].unverified
            /\ final' = disk[pkgs_to_dl[idx + 1].name].final
            /\ pc' = "check_download"
            /\ ret' = "none" /\ err' = "" /\ requests' = 0 /\ calls' = 0
            /\ UNCHANGED <<blobs, tmp_dir, run>>
       ELSE /\ tmp_dir' = FALSE
            /\ blobs' = None
            /\ run' = "ok" /\ ret' = "ok" /\ pc' = "returned"
            /\ UNCHANGED <<idx, pkg, status, unverified, final, err, requests, calls>>
    /\ UNCHANGED <<pubkey_file, max_tries, func, sigbytes, digest, sigret>>
    /\ UNCHANGED <<reader, cfg, pkgs_to_dl, disk, nr, renamed, hdrret, fvars>>

\* the return of do_download_verify to run, where run goes on after a failure
RunAfterPackage_goes_on ==
    /\ run = "running"
    /\ pc \in {"done", "failed_download", "failed_verify"}
    /\ disk' = Stored
    /\ pkgs_to_dl' = IF is_some(cfg.payload_url) THEN pkgs_to_dl
                     ELSE [pkgs_to_dl EXCEPT ![idx].status = status]
    /\ IF pc # "done" /\ is_some(cfg.payload_url)
       THEN /\ run' = "err" /\ ret' = "err" /\ pc' = "returned"
            /\ UNCHANGED <<tmp_dir, blobs>>
       ELSE IF is_some(cfg.payload_url)
       THEN /\ run' = "ok" /\ ret' = "ok" /\ pc' = "returned"
            /\ UNCHANGED <<tmp_dir, blobs>>
       ELSE IF cfg.take_first_match
       THEN /\ tmp_dir' = FALSE /\ blobs' = None
            /\ run' = "ok" /\ ret' = "ok" /\ pc' = "returned"
       ELSE /\ pc' = "loop"
            /\ UNCHANGED <<run, ret, tmp_dir, blobs>>
    /\ UNCHANGED <<pkg, status, unverified, final, pubkey_file, err, calls,
                   max_tries, func, requests, sigbytes, digest, sigret>>
    /\ UNCHANGED <<reader, cfg, idx, nr, renamed, hdrret, fvars>>

\* the return of do_download_verify to run, where take_first_match is ignored
RunAfterPackage_takes_all ==
    /\ run = "running"
    /\ pc \in {"done", "failed_download", "failed_verify"}
    /\ disk' = Stored
    /\ pkgs_to_dl' = IF is_some(cfg.payload_url) THEN pkgs_to_dl
                     ELSE [pkgs_to_dl EXCEPT ![idx].status = status]
    /\ IF pc # "done"
       THEN /\ run' = "err" /\ ret' = "err" /\ pc' = "returned"
            /\ UNCHANGED <<tmp_dir, blobs>>
       ELSE IF is_some(cfg.payload_url)
       THEN /\ run' = "ok" /\ ret' = "ok" /\ pc' = "returned"
            /\ UNCHANGED <<tmp_dir, blobs>>
       ELSE /\ pc' = "loop"
            /\ UNCHANGED <<run, ret, tmp_dir, blobs>>
    /\ UNCHANGED <<pkg, status, unverified, final, pubkey_file, err, calls,
                   max_tries, func, requests, sigbytes, digest, sigret>>
    /\ UNCHANGED <<reader, cfg, idx, nr, renamed, hdrret, fvars>>

\* the return of do_download_verify to run: the ? on its error, the early
\* return of the URL mode, the break on take_first_match with the removal of
\* .tmp behind the loop, or the next turn of the loop
RunAfterPackage ==
    /\ run = "running"
    /\ pc \in {"done", "failed_download", "failed_verify"}
    /\ disk' = Stored
    /\ pkgs_to_dl' = IF is_some(cfg.payload_url) THEN pkgs_to_dl
                     ELSE [pkgs_to_dl EXCEPT ![idx].status = status]
    /\ IF pc # "done"
       THEN /\ run' = "err" /\ ret' = "err" /\ pc' = "returned"
            /\ UNCHANGED <<tmp_dir, blobs>>
       ELSE IF is_some(cfg.payload_url)
       THEN /\ run' = "ok" /\ ret' = "ok" /\ pc' = "returned"
            /\ UNCHANGED <<tmp_dir, blobs>>
       ELSE IF cfg.take_first_match
       THEN /\ tmp_dir' = FALSE /\ blobs' = None
            /\ run' = "ok" /\ ret' = "ok" /\ pc' = "returned"
       ELSE /\ pc' = "loop"
            /\ UNCHANGED <<run, ret, tmp_dir, blobs>>
    /\ UNCHANGED <<pkg, status, unverified, final, pubkey_file, err, calls,
                   max_tries, func, requests, sigbytes, digest, sigret>>
    /\ UNCHANGED <<reader, cfg, idx, nr, renamed, hdrret, fvars>>

\* DownloadVerify::run is started again with the same configuration on the
\* output_dir a run that returned Ok has left
RunAgain ==
    /\ run = "ok" /\ pc = "returned"
    /\ nr < MaxRuns
    /\ run' = "start" /\ pc' = "idle"
    /\ UNCHANGED <<pkg, status, unverified, blobs, final, pubkey_file, ret, err,
                   calls, max_tries, func, requests, sigbytes, digest, sigret>>
    /\ UNCHANGED <<reader, cfg, pkgs_to_dl, disk, idx, tmp_dir, nr, renamed, hdrret, fvars>>

NextRun ==
    \/ Main
    \/ RunStart
    \/ FetchUrlToFile
    \/ RunLoop
    \/ CheckDownload
    \/ DownloadSkip
    \/ DownloadStart
    \/ DoDownloadAndHash
    \/ VerifySignatureOnDisk
    \/ Rename
    \/ RunAfterPackage
    \/ RunAgain

SpecRun == InitRun /\ [][NextRun]_vars

----------------------------------------------------------------------------
(* read_delta_update_header on its own *)

\* the first bytes of the files: the magic, one with a wrong first byte, one
\* with a wrong last byte, and a file of three bytes
HeaderMagics ==
    {DELTA_UPDATE_FILE_MAGIC, <<"X", "r", "A", "U">>, <<"C", "r", "A", "X">>,
     <<"C", "r", "A">>}

HeaderFiles ==
    {LET body == Body(m, v, ms, 1, Some(1), Some(1), Some(Hash("sha256", Image)))
     IN File(body, Signatures(<<"valid">>, body)) :
        m \in HeaderMagics, v \in 0..2, ms \in 0..MaxData}

InitHeader ==
    /\ pkg = AnyPackage
    /\ status = Unverified
    /\ unverified \in {Some(f) : f \in HeaderFiles}
    /\ blobs = None /\ final = None
    /\ pubkey_file = KeyFile
    /\ pc = "read_delta_update_header"
    /\ ret = "none" /\ err = "" /\ requests = 0
    /\ Idle
    /\ reader \in Variants
    /\ NoRun

ReadDeltaUpdateHeader ==
    /\ pc = "read_delta_update_header"
    /\ hdrret' = read_delta_update_header(reader, unwrap(unverified))
    /\ pc' = "header_read"
    /\ UNCHANGED <<pkg, status, unverified, blobs, final, pubkey_file, ret, err,
                   calls, max_tries, func, requests, sigbytes, digest, sigret>>
    /\ UNCHANGED <<reader, cfg, pkgs_to_dl, disk, idx, tmp_dir, run, nr, renamed>>
    /\ UNCHANGED fvars

NextHeader == ReadDeltaUpdateHeader

SpecHeader == InitHeader /\ [][NextHeader]_vars

----------------------------------------------------------------------------
(* translate_offset on its own, on u64 operands *)

\* `DELTA_UPDATE_HEADER_SIZE + self.manifest_size + offset` on u64, evaluated
\* from the left: the value a build without overflow checks computes, and
\* whether one of the two additions overflows (a build with overflow checks
\* panics there).  Below 2^64 it is translate_offset above.
translate_offset_wrapping(manifest_size, offset) ==
    wrapping_add(wrapping_add(U64(DELTA_UPDATE_HEADER_SIZE), manifest_size), offset)

translate_offset_overflows(manifest_size, offset) ==
    \/ overflowing_add(U64(DELTA_UPDATE_HEADER_SIZE), manifest_size)
    \/ overflowing_add(wrapping_add(U64(DELTA_UPDATE_HEADER_SIZE), manifest_size), offset)

\* u64 values a header or a manifest can carry: small ones, the powers of the
\* limb base, and the ones next to 2^64
U64Values ==
    {U64(n) : n \in {0, 1, 2, MaxData, Base - 1, Base, Base + 1}}
    \cup {<<Base - d, Base - 1, Base - 1, Base - 1>> :
              d \in {1, 2, DELTA_UPDATE_HEADER_SIZE, DELTA_UPDATE_HEADER_SIZE + 1,
                     DELTA_UPDATE_HEADER_SIZE + 2}}
    \cup {<<0, 0, 0, Base \div 2>>, <<0, 0, 0, Base - 1>>}

InitOffset ==
    /\ pkg = AnyPackage
    /\ status = Unverified
    /\ unverified = None /\ blobs = None /\ final = None
    /\ pubkey_file = KeyFile
    /\ pc = "translate_offset"
    /\ ret = "none" /\ err = "" /\ requests = 0
    /\ Idle
    /\ reader = "delta_update/mod.rs"
    /\ cfg = NoConfig /\ pkgs_to_dl = <<>> /\ disk = <<>> /\ idx = 0
    /\ tmp_dir = TRUE /\ run = "none" /\ nr = 0 /\ renamed = 0
    /\ hdrret = Err("")
    /\ arg \in [manifest_size : U64Values, offset : U64Values]
    /\ out = Err("") /\ hod = NoHash

\* header.translate_offset(offset) in a build with overflow checks
TranslateOffsetChecked ==
    /\ pc = "translate_offset"
    /\ IF translate_offset_overflows(arg.manifest_size, arg.offset)
       THEN /\ pc' = "panicked"
            /\ out' = Err("attempt to add with overflow")
       ELSE /\ pc' = "translated"
            /\ out' = Ok(translate_offset_wrapping(arg.manifest_size, arg.offset))
    /\ UNCHANGED <<pkg, status, unverified, blobs, final, pubkey_file, ret, err,
                   calls, max_tries, func, requests, sigbytes, digest, sigret>>
    /\ UNCHANGED <<reader, cfg, pkgs_to_dl, disk, idx, tmp_dir, run, nr, renamed,
                   hdrret, arg, hod>>

\* header.translate_offset(offset) in a build without overflow checks
TranslateOffsetWrapping ==
    /\ pc = "translate_offset"
    /\ pc' = "translated"
    /\ out' = Ok(translate_offset_wrapping(arg.manifest_size, arg.offset))
    /\ UNCHANGED <<pkg, status, unverified, blobs, final, pubkey_file, ret, err,
                   calls, max_tries, func, requests, sigbytes, digest, sigret>>
    /\ UNCHANGED <<reader, cfg, pkgs_to_dl, disk, idx, tmp_dir, run, nr, renamed,
                   hdrret, arg, hod>>

NextOffset == TranslateOffsetChecked \/ TranslateOffsetWrapping

SpecOffset == InitOffset /\ [][NextOffset]_vars

----------------------------------------------------------------------------
(* try_from_hex_string on its own *)

\* A string is the sequence of its bytes.  "0" and "a" are hex digits, "g" is
\* an ASCII letter that is none, "+" is the sign from_str_radix accepts in
\* front of the digits, and "e1" "e2" are the two bytes of one non-ASCII
\* character.
HexDigits == {"0", "a"}
HexValue(c) == IF c = "a" THEN 10 ELSE 0

FINGERPRINT_SIZE(T) == IF T = "Sha1" THEN 20 ELSE 32

\* str::is_char_boundary(i), i counted from 0
is_char_boundary(s, i) ==
    \/ i = 0
    \/ i = Len(s)
    \/ i < Len(s) /\ s[i + 1] # "e2"

\* u8::from_str_radix(byte_str, 16) for a string of two bytes
from_str_radix(byte_str) ==
    IF byte_str[1] \in HexDigits /\ byte_str[2] \in HexDigits
    THEN Ok(16 * HexValue(byte_str[1]) + HexValue(byte_str[2]))
    ELSE IF byte_str[1] = "+" /\ byte_str[2] \in HexDigits
    THEN Ok(HexValue(byte_str[2]))
    ELSE Err("TryFromHex")

\* the for loop of try_from_hex_string from index i on, with the bytes pushed
\* so far: `&s[i..i + 2]` panics when i + 2 is beyond the end of s or one of
\* the two indices is inside a character
RECURSIVE hex_loop(_, _, _)
hex_loop(s, i, bytes) ==
    IF i >= Len(s) THEN [panic |-> FALSE, res |-> Ok(bytes)]
    ELSE IF i + 2 > Len(s) \/ ~is_char_boundary(s, i) \/ ~is_char_boundary(s, i + 2)
    THEN [panic |-> TRUE, res |-> Err("slice index")]
    ELSE LET byte == from_str_radix(SubSeq(s, i + 1, i + 2))
         IN IF byte.ok THEN hex_loop(s, i + 2, Append(bytes, byte.val))
            ELSE [panic |-> FALSE, res |-> Err(byte.err)]

try_from_hex_string(T, s) ==
    LET l == hex_loop(s, 0, <<>>)
    IN IF l.panic \/ ~l.res.ok THEN l
       ELSE IF Len(l.res.val) = FINGERPRINT_SIZE(T) THEN l
       ELSE [panic |-> FALSE, res |-> Err("InvalidDigestLength")]

\* the strings given to it: n bytes, all the digit c but for one segment put
\* in after the first k bytes
Fill(c, n) == [i \in 1..n |-> c]
HexSegments == {<<>>, <<"g">>, <<"+">>, <<"e1", "e2">>, <<"0">>}
HexLengths(T) ==
    {0, 1, 2, 3} \cup {2 * FINGERPRINT_SIZE(T) + d : d \in {-2, -1, 0, 1, 2}}
HexStrings(T) ==
    {Fill("a", k) \o seg \o Fill("a", n - k - Len(seg)) :
        seg \in HexSegments,
        k \in 0..3,
        n \in {m \in HexLengths(T) : m >= 3 + 2}}
    \cup {Fill("a", n) : n \in HexLengths(T)}
    \cup {seg \o Fill("a", n) : seg \in HexSegments, n \in 0..2}

InitHex ==
    /\ pkg = AnyPackage
    /\ status = ToDownload
    /\ unverified = None /\ blobs = None /\ final = None
    /\ pubkey_file = KeyFile
    /\ pc = "try_from_hex_string"
    /\ ret = "none" /\ err = "" /\ requests = 0
    /\ Idle
    /\ reader = "delta_update/mod.rs"
    /\ cfg = NoConfig /\ pkgs_to_dl = <<>> /\ disk = <<>> /\ idx = 0
    /\ tmp_dir = TRUE /\ run = "none" /\ nr = 0 /\ renamed = 0
    /\ hdrret = Err("")
    /\ \E T \in {"Sha1", "Sha256"} : \E str \in HexStrings(T) : arg = [T |-> T, s |-> str]
    /\ out = Err("") /\ hod = NoHash

TryFromHexString ==
    /\ pc = "try_from_hex_string"
    /\ LET r == try_from_hex_string(arg.T, arg.s)
       IN /\ pc' = IF r.panic THEN "panicked" ELSE "parsed"
          /\ out' = r.res
    /\ UNCHANGED <<pkg, status, unverified, blobs, final, pubkey_file, ret, err,
                   calls, max_tries, func, requests, sigbytes, digest, sigret>>
    /\ UNCHANGED <<reader, cfg, pkgs_to_dl, disk, idx, tmp_dir, run, nr, renamed,
                   hdrret, arg, hod>>

NextHex == TryFromHexString

SpecHex == InitHex /\ [][NextHex]_vars

----------------------------------------------------------------------------
(* hash_on_disk on its own, one step for each pass of its while loop.  The   *)
(* hasher is the sequence of the lengths of the chunks given to update(); as *)
(* the chunks are read one after the other from the start of the file, chunk *)
(* j holds the bytes from the sum of the lengths before it on.  The loop of  *)
(* the older src/download.rs takes min(maxlen_to_read, CHUNKLEN) bytes in    *)
(* each pass, which is what the buffer below holds.                          *)

CHUNKLEN == 10485760

\* the length of databuf after `if maxlen_to_read < CHUNKLEN {
\* databuf.truncate(maxlen_to_read) }`; truncate never makes a Vec longer
truncated_no_truncate(databuf, maxlen_to_read) == databuf

truncated(databuf, maxlen_to_read) ==
    IF maxlen_to_read < CHUNKLEN THEN Min(databuf, maxlen_to_read) ELSE databuf

RECURSIVE SumOf(_)
SumOf(lens) == IF lens = <<>> THEN 0 ELSE Head(lens) + SumOf(Tail(lens))

FileLens ==
    {0, 1, CHUNKLEN - 1, CHUNKLEN, CHUNKLEN + 1}
    \cup {k * CHUNKLEN : k \in 1..MaxChunks} \cup {MaxChunks * CHUNKLEN + 1}

InitHash ==
    /\ pkg = AnyPackage
    /\ status = ToDownload
    /\ unverified = None /\ blobs = None /\ final = None
    /\ pubkey_file = KeyFile
    /\ pc = "hash_on_disk"
    /\ ret = "none" /\ err = "" /\ requests = 0
    /\ Idle
    /\ reader = "delta_update/mod.rs"
    /\ cfg = NoConfig /\ pkgs_to_dl = <<>> /\ disk = <<>> /\ idx = 0
    /\ tmp_dir = TRUE /\ run = "none" /\ nr = 0 /\ renamed = 0
    /\ hdrret = Err("")
    /\ arg = <<>> /\ out = Err("")
    /\ \E alg \in {"sha256", "sha1"}, filelen \in FileLens,
          maxlen \in {None} \cup {Some(n) : n \in FileLens \cup {(MaxChunks + 1) * CHUNKLEN}} :
          hod = [NoHash EXCEPT !.alg = alg, !.filelen = filelen, !.maxlen = maxlen]

\* from File::open to the creation of databuf
HashOpen ==
    /\ pc = "hash_on_disk"
    /\ LET filelen == hod.filelen
           maxlen == hod.maxlen
           maxlen_to_read == IF is_some(maxlen)
                             THEN (IF filelen < unwrap(maxlen) THEN filelen ELSE unwrap(maxlen))
                             ELSE filelen
       IN hod' = [hod EXCEPT !.maxlen_to_read = maxlen_to_read, !.databuf = CHUNKLEN]
    /\ pc' = "hash_loop"
    /\ UNCHANGED <<pkg, status, unverified, blobs, final, pubkey_file, ret, err,
                   calls, max_tries, func, requests, sigbytes, digest, sigret>>
    /\ UNCHANGED <<reader, cfg, pkgs_to_dl, disk, idx, tmp_dir, run, nr, renamed,
                   hdrret, arg, out>>

\* one pass of `while maxlen_to_read > 0`
HashChunk ==
    /\ pc = "hash_loop"
    /\ hod.maxlen_to_read > 0
    /\ LET databuf == truncated(hod.databuf, hod.maxlen_to_read)
       IN IF SumOf(hod.fed) + databuf > hod.filelen
          THEN \* read_exact meets the end of the file
               /\ out' = Err("failed to read_exact")
               /\ pc' = "hashed"
               /\ hod' = [hod EXCEPT !.databuf = databuf]
          ELSE /\ hod' = [hod EXCEPT !.databuf = databuf,
                                     !.maxlen_to_read = @ - databuf,
                                     !.fed = Append(@, databuf)]
               /\ UNCHANGED <<pc, out>>
    /\ UNCHANGED <<pkg, status, unverified, blobs, final, pubkey_file, ret, err,
                   calls, max_tries, func, requests, sigbytes, digest, sigret>>
    /\ UNCHANGED <<reader, cfg, pkgs_to_dl, disk, idx, tmp_dir, run, nr, renamed,
                   hdrret, arg>>

\* Ok(hasher.finalize()): the digest of the bytes given to the hasher, which
\* are the first SumOf(fed) bytes of the file
HashFinalize ==
    /\ pc = "hash_loop"
    /\ ~(hod.maxlen_to_read > 0)
    /\ out' = Ok([alg |-> hod.alg, of |-> SumOf(hod.fed)])
    /\ pc' = "hashed"
    /\ UNCHANGED <<pkg, status, unverified, blobs, final, pubkey_file, ret, err,
                   calls, max_tries, func, requests, sigbytes, digest, sigret>>
    /\ UNCHANGED <<reader, cfg, pkgs_to_dl, disk, idx, tmp_dir, run, nr, renamed,
                   hdrret, arg, hod>>

NextHash == HashOpen \/ HashChunk \/ HashFinalize

SpecHash == InitHash /\ [][NextHash]_vars

----------------------------------------------------------------------------
(* The public operations of Package called in any order by a user of the    *)
(* library: check_download, download and verify_signature_on_disk           *)

\* the packages of the responses that announce a file by its SHA-256 and size
OpsPackages == {PackageFor(w, TRUE, FALSE, w.len) : w \in PipelineFiles}

InitOps ==
    /\ pkg \in OpsPackages
    /\ status = ToDownload
    /\ unverified \in {None} \cup {Some(f) : f \in PipelineFiles}
    /\ blobs = None
    /\ final = None
    /\ pubkey_file = KeyFile
    /\ pc = "caller"
    /\ ret = "none" /\ err = "" /\ requests = 0
    /\ Idle
    /\ reader \in Variants
    /\ NoRun

\* the caller, to whom an operation has returned, calls the next one
CallOperation ==
    /\ pc \in {"caller", "download", "verify", "rename", "failed_download",
               "failed_verify"}
    /\ pc' \in {"check_download", "download", "verify"}
    /\ ret' = "none" /\ err' = "" /\ requests' = 0 /\ calls' = 0
    /\ UNCHANGED <<pkg, status, unverified, blobs, final, pubkey_file, max_tries,
                   func, sigbytes, digest, sigret>>
    /\ UNCHANGED <<xvars, renamed>>

NextOps ==
    \/ CallOperation
    \/ CheckDownload
    \/ DownloadSkip
    \/ DownloadStart
    \/ DoDownloadAndHash
    \/ VerifySignatureOnDisk

SpecOps == InitOps /\ [][NextOps]_vars

----------------------------------------------------------------------------
(* get_pkgs_to_download of src/download/mod.rs on its own, for a manifest    *)
(* with <package> and <action> elements                                      *)

\* omaha::response::Action: the event and the sha256 attribute
Action(event, file) == [event |-> event, sha256 |-> hash_on_disk("sha256", file, None)]

ActionLists ==
    {<<>>,
     <<Action("postinstall", Wanted)>>,
     <<Action("preinstall", Wanted)>>,
     <<Action("preinstall", Unsigned), Action("postinstall", Wanted)>>}

InitPkgs ==
    /\ pkg = AnyPackage
    /\ status = ToDownload
    /\ unverified = None /\ blobs = None /\ final = None
    /\ pubkey_file = KeyFile
    /\ pc = "get_pkgs_to_download"
    /\ ret = "none" /\ err = "" /\ requests = 0
    /\ Idle
    /\ reader = "delta_update/mod.rs"
    /\ cfg = NoConfig /\ pkgs_to_dl = <<>> /\ disk = <<>> /\ idx = 0
    /\ tmp_dir = TRUE /\ run = "none" /\ nr = 0 /\ renamed = 0
    /\ hdrret = Err("")
    /\ arg \in [packages : XmlResponses, actions : ActionLists]
    /\ out = Err("") /\ hod = NoHash

\* get_pkgs_to_download(&resp, &glob_set): the loop reads manifest.packages
\* only
GetPkgsToDownload ==
    /\ pc = "get_pkgs_to_download"
    /\ pc' = "selected"
    /\ out' = Ok(get_pkgs_to_download(arg.packages))
    /\ UNCHANGED <<pkg, status, unverified, blobs, final, pubkey_file, ret, err,
                   calls, max_tries, func, requests, sigbytes, digest, sigret>>
    /\ UNCHANGED <<reader, cfg, pkgs_to_dl, disk, idx, tmp_dir, run, nr, renamed,
                   hdrret, arg, hod>>

NextPkgs == GetPkgsToDownload

SpecPkgs == InitPkgs /\ [][NextPkgs]_vars






----------------------------------------------------------------------------
(* Facts about the files, stated without the functions under test *)

OnDisk == unwrap(unverified)

\* the SHA-256 of the assembled blob file equals new_partition_info.hash
PartitionHashMatches(f) ==
    /\ is_some(blobs)
    /\ is_some(f.body.new_partition_info_hash)
    /\ unwrap(f.body.new_partition_info_hash) = [alg |-> "sha256", of |-> unwrap(blobs)]

\* the candidate is a signature of digest d under the key in the key file
CandidateVerifies(c, key_path, d) ==
    /\ key_path = KeyFile
    /\ c.data # None
    /\ c.data[1].key = SigningKey
    /\ c.data[1].over = d

\* some signature embedded in f verifies against the SHA-256 of f's pre-image
SomeSignatureVerifies(f, key_path) ==
    /\ f.sigs.wellformed
    /\ f.body.signatures_offset # None
    /\ \E i \in DOMAIN f.sigs.signatures :
         CandidateVerifies(f.sigs.signatures[i], key_path,
                           [alg |-> "sha256",
                            of |-> [body |-> f.body, sigs |-> NoSigs,
                                    n |-> 20 + f.body.manifest_size
                                            + f.body.signatures_offset[1]]])

\* every digest the package carries is the digest of the whole file f
DigestsMatch(f) ==
    LET whole == [body |-> f.body, sigs |-> f.sigs, n |-> f.len]
    IN /\ pkg.hash_sha256 \in {None, Some([alg |-> "sha256", of |-> whole])}
       /\ pkg.hash_sha1 \in {None, Some([alg |-> "sha1", of |-> whole])}

----------------------------------------------------------------------------
(* The claims *)

\* C1: when verify_signature_on_disk has returned, either the status is
\* Verified, the call returned Ok, the SHA-256 of the assembled blob file
\* equals the (present) new_partition_info.hash and some embedded signature
\* verifies under the configured key against the SHA-256 of the pre-image;
\* or the call returned an error and the status is not Verified.
C1_VerifiedOnlyWithHashAndSignature ==
    pc \in {"rename", "failed_verify"} =>
        \/ /\ status = Verified /\ ret = "ok"
           /\ PartitionHashMatches(OnDisk)
           /\ SomeSignatureVerifies(OnDisk, pubkey_file)
        \/ status # Verified /\ ret = "err"

C1_Witness ==
    /\ pc = "rename" /\ status = Verified
    /\ Len(OnDisk.sigs.signatures) = 2

\* C5: for a well-formed Signatures blob parse_signature_data returns Ok
\* exactly when some candidate verifies against (key, digest), wherever
\* it stands in the list, and NoValidSignature otherwise.
C5_OkIffSomeCandidateVerifies ==
    (pc = "parsed" /\ sigbytes.wellformed) =>
        /\ sigret.ok <=> \E i \in DOMAIN sigbytes.signatures :
                            CandidateVerifies(sigbytes.signatures[i], pubkey_file, digest)
        /\ ~sigret.ok => sigret.err = "NoValidSignature"

C5_Witness ==
    /\ pc = "parsed" /\ sigret.ok
    /\ Len(sigbytes.signatures) = 3
    /\ ~CandidateVerifies(sigbytes.signatures[1], pubkey_file, digest)
    /\ ~CandidateVerifies(sigbytes.signatures[2], pubkey_file, digest)

\* C6: when verify_signature_on_disk has returned without failing in a step
\* before the signature check, and no embedded signature verifies, the call
\* returned an error and the status is BadSignature.
EarlierFailures ==
    {"open", "ReadHeaderMagic", "BadHeaderMagic", "UnsupportedFileFormatVersion",
     "ReadSignature", "MissingSignatureSize", "MissingSignatureOffset",
     "MissingSignatureOffsetAndSize", "unable to get new_partition_info hash",
     "mismatch of data hash"}

C6_NoSignatureThenBadSignature ==
    (/\ pc \in {"rename", "failed_verify"}
     /\ err \notin EarlierFailures
     /\ ~SomeSignatureVerifies(OnDisk, pubkey_file))
    => (ret = "err" /\ status = BadSignature)

C6_Witness ==
    /\ pc = "failed_verify" /\ status = BadSignature /\ ret = "err"
    /\ pubkey_file = KeyFile
    /\ OnDisk.sigs.wellformed
    /\ Len(OnDisk.sigs.signatures) = 1
    /\ OnDisk.sigs.signatures[1].data = None

\* C2: in the pipeline, a package with status Verified has on disk a file
\* whose SHA-256 and SHA-1 equal the expected digests the package carries.
C2_VerifiedDigestsMatch ==
    status = Verified => (is_some(unverified) /\ DigestsMatch(OnDisk))

C2_Witness ==
    /\ status = Verified /\ pc = "done"
    /\ requests > 0
    /\ is_some(pkg.hash_sha256) /\ is_some(pkg.hash_sha1)

\* C3: in the pipeline, a package with status Verified has on disk a file
\* whose size equals the expected size of the package.
C3_VerifiedSizeMatches ==
    status = Verified => (is_some(unverified) /\ OnDisk.len = pkg.size)

\* C4: verification starts only when a download or the check of an existing
\* file has left a file and the status Unverified; the rename comes only
\* after a verification that ended with Verified; the final output file
\* changes only in that rename.
C4_Order ==
    [][/\ (pc' = "verify" => /\ pc \in {"download", "download_and_hash"}
                              /\ status' = Unverified /\ is_some(unverified'))
       /\ (pc' = "rename" => pc = "verify" /\ status' = Verified)
       /\ (pc' \in {"failed_download", "failed_verify"} => final' = final)
       /\ (final' # final => /\ pc = "rename" /\ status = Verified
                             /\ pc' = "done" /\ final' = Some(Image))]_vars

C4_Witness ==
    /\ pc = "done" /\ ret = "ok" /\ status = Verified
    /\ final = Some(Image) /\ blobs = None

\* C7: an operation that fails on a digest mismatch leaves the status
\* BadChecksum: download on a mismatch of the downloaded file, and
\* verify_signature_on_disk on a mismatch of the image with
\* new_partition_info.hash.
C7_MismatchIsBadChecksum ==
    /\ (pc = "failed_download"
        /\ err \in {"checksum mismatch for sha256", "checksum mismatch for sha1"})
       => status = BadChecksum
    /\ (pc = "failed_verify" /\ err = "mismatch of data hash")
       => status = BadChecksum

\* C8: retry_loop(f, n), n >= 1, returns after exactly min(k, n) calls, k the
\* index of the first Ok of f: with that Ok when k <= n, with the error of
\* the n-th call otherwise; before that it has made fewer calls, all failed.
FirstOk ==
    IF \E i \in DOMAIN func : func[i].ok
    THEN CHOOSE i \in DOMAIN func : func[i].ok /\ \A j \in 1..(i - 1) : ~func[j].ok
    ELSE Len(func) + 1

C8_CallsUntilFirstOk ==
    /\ pc = "returned" =>
         /\ calls = Min(FirstOk, max_tries)
         /\ FirstOk <= max_tries => ret = "ok"
         /\ FirstOk > max_tries => (ret = "err" /\ err = func[max_tries].err)
    /\ pc = "retry_loop" => calls < Min(FirstOk, max_tries)

C8_Witness ==
    /\ pc = "returned" /\ ret = "err"
    /\ max_tries = 3 /\ calls = 3
    /\ func[2].err # func[3].err

\* C9: after a GET that was answered with a status other than 2xx no
\* further request is sent.
C9_StatusNotRetried ==
    [][(err \in {"cannnot fetch remotely with status code",
                 "general failure with status code"})
       => requests' = requests]_vars

\* C10: check_download on a package with status ToDownload: no file leaves
\* ToDownload; a smaller file gives DownloadIncomplete(size on disk); a file
\* of the expected size gives Unverified when every supplied digest matches
\* and ToDownload when one does not.
C10_CheckDownload ==
    pc = "download" =>
        IF is_none(unverified) THEN status = ToDownload
        ELSE /\ OnDisk.len < pkg.size => status = DownloadIncomplete(OnDisk.len)
             /\ (OnDisk.len = pkg.size /\ DigestsMatch(OnDisk)) => status = Unverified
             /\ (OnDisk.len = pkg.size /\ ~DigestsMatch(OnDisk)) => status = ToDownload

C10_Witness ==
    /\ pc = "download" /\ is_some(unverified)
    /\ OnDisk.len = pkg.size /\ ~DigestsMatch(OnDisk)
    /\ status = ToDownload

\* C11: whatever status the package had, when check_download finds a file
\* larger than the expected size the status after the call is ToDownload.
C11_LargerFileIsToDownload ==
    [][(pc = "check_download" /\ is_some(unverified) /\ OnDisk.len > pkg.size)
       => status' = ToDownload]_vars

\* C12: download entered with ToDownload or DownloadIncomplete(n) returns
\* either Ok with status Unverified and, at <dir>/<name>, one whole file as
\* the server sent it, whose digests are the expected ones whatever was there
\* before; or an error with status DownloadFailed after MAX_DOWNLOAD_RETRY
\* failed attempts.  No other status results.
C12_FullDownload ==
    [][(pc = "download_and_hash" /\ pc' # pc) =>
          \/ /\ pc' = "verify" /\ ret' = "ok" /\ status' = Unverified
             /\ unverified' \in {Some(f) : f \in PipelineFiles}
             /\ DigestsMatch(unwrap(unverified'))
          \/ /\ pc' = "failed_download" /\ ret' = "err" /\ status' = DownloadFailed
             /\ calls' = MAX_DOWNLOAD_RETRY]_vars

C12_Witness ==
    /\ pc = "verify" /\ ret = "ok" /\ status = Unverified
    /\ requests = 2
    /\ err = ""
    /\ OnDisk.len = MaxData + 22

\* C13: download called with status Verified, Unverified, DownloadFailed,
\* BadChecksum or BadSignature sends no request, leaves every file and the
\* status as they are and returns Ok.
C13_DownloadIsNoOp ==
    [][(pc = "download"
        /\ status.tag \in {"Verified", "Unverified", "DownloadFailed",
                           "BadChecksum", "BadSignature"})
       => /\ requests' = requests
          /\ unverified' = unverified /\ blobs' = blobs /\ final' = final
          /\ status' = status
          /\ ret' = "ok" /\ pc' = "verify"]_vars

C13_Witness ==
    /\ pc = "verify" /\ ret = "ok" /\ requests = 0
    /\ status = BadSignature
    /\ is_some(unverified)

\* DownloadVerify::run was entered in XML mode, in URL mode
XmlMode == cfg.entry = "DownloadVerify::run" /\ is_none(cfg.payload_url)
UrlMode == cfg.entry = "DownloadVerify::run" /\ is_some(cfg.payload_url)

\* the file at .unverified/<name> has the size and the digests the package
\* being handled expects
FileAsExpected ==
    /\ is_some(unverified)
    /\ OnDisk.len = pkg.size
    /\ DigestsMatch(OnDisk)

\* the run has made no file for package j of pkgs_to_dl: there is no download
\* of it, and the path of its output holds nothing, or the output of a
\* package handled before it that has the same output path
Untouched(j) ==
    /\ is_none(disk[pkgs_to_dl[j].name].unverified)
    /\ \/ is_none(disk[pkgs_to_dl[j].name].final)
       \/ \E i \in 1..Min(idx, j - 1) :
             pkg_verified(pkgs_to_dl[i].name, cfg.target_filename)
                = pkg_verified(pkgs_to_dl[j].name, cfg.target_filename)

\* C14: in a second run in XML mode on the output_dir of a run that returned
\* Ok, while a package of the first run is handled: no request is sent when
\* its file has the expected size and digests, do_download_verify then ends
\* with status Verified, and the status never becomes DownloadFailed,
\* BadChecksum or BadSignature.
C14_RerunKeepsVerified ==
    [][(XmlMode /\ nr = 2 /\ run = "running" /\ idx >= 1
        /\ pc \in {"check_download", "download", "download_and_hash", "verify", "rename"})
       => /\ FileAsExpected => requests' = requests
          /\ (FileAsExpected /\ pc' \in {"done", "failed_download", "failed_verify"})
             => (pc' = "done" /\ status' = Verified)
          /\ status'.tag \notin {"DownloadFailed", "BadChecksum", "BadSignature"}]_vars

\* the packages of the response the run selects, in the order of the response
IsSelected(e) == e.matches /\ (e.pkg.hash_sha256 # <<>> \/ e.pkg.hash_sha1 # <<>>)
Selected == IF cfg.input_xml = <<>> THEN <<>> ELSE SelectSeq(cfg.input_xml[1], IsSelected)

\* C15: in XML mode the selected packages are taken in the order of the
\* response; the packages in front of the one being handled were all
\* handled with success, the ones behind it are untouched: status ToDownload,
\* and in a first run no file; run returns an error as soon as the package
\* being handled has failed, and nothing happens after that.
C15_InOrderUntilFirstFailure ==
    (XmlMode /\ run \in {"running", "ok", "err"}) =>
        /\ Len(pkgs_to_dl) = Len(Selected)
        /\ \A j \in 1..Len(pkgs_to_dl) :
              /\ pkgs_to_dl[j].name = Selected[j].name
              /\ pkgs_to_dl[j].pkg = Selected[j].pkg
        /\ \A j \in 1..Len(pkgs_to_dl) :
              /\ j < idx => pkgs_to_dl[j].status = Verified
              /\ j > idx => /\ pkgs_to_dl[j].status = ToDownload
                            /\ nr = 1 => Untouched(j)
        /\ (run = "err" /\ idx >= 1) =>
              /\ pc = "returned"
              /\ pkgs_to_dl[idx].status # Verified

C15_Witness ==
    /\ XmlMode /\ run = "err" /\ nr = 1
    /\ Len(pkgs_to_dl) = 2 /\ idx = 1
    /\ pkgs_to_dl[1].status = BadSignature
    /\ pkgs_to_dl[2].status = ToDownload /\ Untouched(2)

\* C16: when run has returned Ok in XML mode with take_first_match and at
\* least one selected package, exactly one rename was made, for the first
\* package, which is Verified; the packages behind it are untouched.
C16_TakeFirstMatch ==
    (XmlMode /\ run = "ok" /\ cfg.take_first_match /\ Len(pkgs_to_dl) >= 1) =>
        /\ renamed = 1
        /\ idx = 1
        /\ pkgs_to_dl[1].status = Verified
        /\ is_some(disk[pkgs_to_dl[1].name].final)
        /\ \A j \in 2..Len(pkgs_to_dl) :
              /\ pkgs_to_dl[j].status = ToDownload
              /\ nr = 1 => Untouched(j)

C16_Witness ==
    /\ XmlMode /\ run = "ok" /\ cfg.take_first_match /\ nr = 1
    /\ Len(pkgs_to_dl) = 2
    /\ renamed = 1
    /\ Untouched(2)

\* C17: when DownloadVerify::run has returned Ok, in either mode, the
\* directory <output_dir>/.tmp does not exist.
C17_TmpRemovedOnOk ==
    (cfg.entry = "DownloadVerify::run" /\ run = "ok") => ~tmp_dir

\* C18: with both an XML input and a payload URL, or with neither, the entry
\* point returns an error, and no download or verification step is ever
\* taken: no request, no file, no package selected.
C18_BothOrNeitherRejected ==
    (is_some(cfg.input_xml) <=> is_some(cfg.payload_url)) =>
        /\ pc \in {"idle", "returned"}
        /\ pc = "returned" => run = "err"
        /\ requests = 0
        /\ unverified = None /\ blobs = None /\ final = None
        /\ pkgs_to_dl = <<>>

\* C19: in URL mode no package list is built and one package is handled; a
\* body the server sends is accepted by fetch_url_to_file whatever its
\* digests, which returns the package with status Unverified; check_download
\* leaves it Unverified, no second download_and_hash is entered and no
\* request is sent after fetch_url_to_file; run returns Ok with the package
\* Verified and renamed.
C19_UrlModeOneDownload ==
    [][UrlMode =>
         /\ pkgs_to_dl' = <<>> /\ idx' = 0
         /\ pc' # "download_and_hash"
         /\ pc \notin {"idle", "fetch_url_to_file"} => requests' = requests
         /\ pc = "fetch_url_to_file" =>
               /\ err' \notin {"checksum mismatch for sha256", "checksum mismatch for sha1"}
               /\ err' = "" => /\ pc' = "check_download"
                               /\ status' = Unverified
                               /\ unverified' \in {Some(f) : f \in PipelineFiles}
         /\ pc = "check_download" => (status' = Unverified /\ unverified' = unverified)
         /\ run' = "ok" => (status' = Verified /\ renamed' = 1)]_vars

C19_Witness ==
    /\ UrlMode /\ run = "ok" /\ nr = 1
    /\ status = Verified /\ renamed = 1
    /\ requests = 2
    /\ final = Some(Image)

\* C29: in a first run of DownloadVerify::run in XML mode, on an output_dir
\* that holds no output yet, the rename of a verified package lands on a path
\* no earlier package of the run has put its output on: no package's final
\* output is overwritten by a later package of the same run, whatever
\* target_filename is and whatever the extensions of the names are.
C29_OutputNeverOverwritten ==
    [][(XmlMode /\ nr = 1 /\ renamed' = renamed + 1) => final = None]_vars

\* C20: read_delta_update_header of delta_update/mod.rs, on a file of at
\* least 20 bytes, returns Ok exactly when the magic is "CrAU" and the
\* version is 1, with the manifest_size of the file; it fails with
\* BadHeaderMagic when the magic is not "CrAU", and with
\* UnsupportedFileFormatVersion when the magic is "CrAU" and the version is
\* not 1.
C20_HeaderMagicThenVersion ==
    (pc = "header_read" /\ reader = "delta_update/mod.rs"
     /\ Len(OnDisk.body.magic) = 4) =>
        LET b == OnDisk.body
            magic_ok == b.magic = <<"C", "r", "A", "U">>
        IN /\ hdrret.ok <=> (magic_ok /\ b.file_format_version = 1)
           /\ hdrret.ok => hdrret.val = b.manifest_size
           /\ ~magic_ok => hdrret.err = "BadHeaderMagic"
           /\ (magic_ok /\ b.file_format_version # 1)
              => hdrret.err = "UnsupportedFileFormatVersion"

----------------------------------------------------------------------------
(* The files do_download_verify makes, for any package name.                *)

\* the directories that exist when the first package is handled: the root,
\* /etc, output_dir and the two directories run has created in it
Directories ==
    {<<>>, <<Normal("etc", "")>>, output_dir.comps,
     join(output_dir, UNVERFIED_SUFFIX).comps, join(output_dir, TMP_SUFFIX).comps}

\* the directory the components lead to from the directory cur, as the
\* system resolves them: ".." leaves the directory (the root is its own
\* parent), a name enters a directory that has to exist unless the caller
\* creates what is missing (create_dir_all)
RECURSIVE resolve_dir(_, _, _)
resolve_dir(cur, comps, create) ==
    IF comps = <<>> THEN Some(cur)
    ELSE IF Head(comps) = ParentDir
    THEN resolve_dir(IF cur = <<>> THEN cur ELSE SubSeq(cur, 1, Len(cur) - 1),
                     Tail(comps), create)
    ELSE IF ~create /\ Append(cur, Head(comps)) \notin Directories THEN None
    ELSE resolve_dir(Append(cur, Head(comps)), Tail(comps), create)

\* the place of the file File::create(p) makes or truncates: p has to end in
\* a file name whose directory exists and that is no directory itself
created_file(p) ==
    IF is_none(file_name(p)) THEN None
    ELSE LET dir == resolve_dir(<<>>, unwrap(parent(p)).comps, FALSE)
         IN IF is_none(dir) \/ Append(unwrap(dir), unwrap(file_name(p))) \in Directories
            THEN None
            ELSE Some(Append(unwrap(dir), unwrap(file_name(p))))

\* the place of the file get_data_blobs makes after create_dir_all of its
\* directory
created_with_dirs(p) ==
    Some(Append(unwrap(resolve_dir(<<>>, unwrap(parent(p)).comps, TRUE)),
                unwrap(file_name(p))))

\* The files do_download_verify makes for a package of the given name that
\* is downloaded from a server that answers with a correctly signed payload:
\* the download, the data blobs and the renamed output, each None when the
\* step fails or is not reached
do_download_verify_paths(name, output_filename) ==
    LET unverified_dir == join(output_dir, UNVERFIED_SUFFIX)
        \* Package::download: into_dir.join(&*self.name)
        path == join(unverified_dir, name)
        downloaded == created_file(path)
        \* do_download_verify
        pkg_unverified == join(unverified_dir, name)
        \* Package::verify_signature_on_disk
        from_parent == parent(pkg_unverified)
        tmpdir_parent == IF is_some(from_parent) THEN parent(unwrap(from_parent)) ELSE None
        datablobspath == join(join(unwrap(tmpdir_parent), TMP_SUFFIX),
                              PathOf(FALSE, <<Normal("ue_data_blobs", "")>>))
        nothing == [unverified |-> None, datablobs |-> None, final |-> None]
    IN IF is_none(downloaded) THEN nothing
       ELSE IF is_none(tmpdir_parent) THEN [nothing EXCEPT !.unverified = downloaded]
       ELSE [unverified |-> downloaded,
             datablobs |-> created_with_dirs(datablobspath),
             \* fs::rename(datablobspath, pkg_verified)
             final |-> created_file(pkg_verified(name, output_filename))]

\* package names have up to MaxComponents components
MaxComponents == 3

NameComponents == {Normal("x", ""), Normal("x", "gz"), Normal("etc", ""), ParentDir}

PackageNames ==
    {PathOf(a, c) : a \in BOOLEAN,
                    c \in UNION {[1..n -> NameComponents] : n \in 1..MaxComponents}}

InitPaths ==
    /\ pkg = AnyPackage
    /\ status = ToDownload
    /\ unverified = None /\ blobs = None /\ final = None
    /\ pubkey_file = KeyFile
    /\ pc = "do_download_verify"
    /\ ret = "none" /\ err = "" /\ requests = 0
    /\ Idle
    /\ reader = "delta_update.rs"
    /\ cfg = NoConfig /\ pkgs_to_dl = <<>> /\ disk = <<>> /\ idx = 0
    /\ tmp_dir = TRUE /\ run = "none" /\ nr = 0 /\ renamed = 0
    /\ hdrret = Err("")
    /\ arg \in [name : PackageNames,
                target_filename : {None, Some(PathOf(FALSE, <<Normal("target", "raw")>>))}]
    /\ out = Err("") /\ hod = NoHash

DoDownloadVerifyPaths ==
    /\ pc = "do_download_verify"
    /\ pc' = "paths"
    /\ out' = Ok(do_download_verify_paths(arg.name, arg.target_filename))
    /\ UNCHANGED <<pkg, status, unverified, blobs, final, pubkey_file, ret, err,
                   calls, max_tries, func, requests, sigbytes, digest, sigret>>
    /\ UNCHANGED <<reader, cfg, pkgs_to_dl, disk, idx, tmp_dir, run, nr, renamed,
                   hdrret, arg, hod>>

NextPaths == DoDownloadVerifyPaths

SpecPaths == InitPaths /\ [][NextPaths]_vars

----------------------------------------------------------------------------
\* the file at the resolved place p lies in the directory dir or below it
Under(p, dir) ==
    Len(p) > Len(dir) /\ SubSeq(p, 1, Len(dir)) = dir

\* C28: every file made for a package lies inside output_dir: the download
\* under .unverified/, the data blobs under .tmp/, the output directly in
\* output_dir, for every package name, also one with ".." components, with
\* several components or with an absolute path.
C28_FilesInsideOutputDir ==
    pc = "paths" =>
        LET made == out.val
        IN /\ is_some(made.unverified) =>
                Under(unwrap(made.unverified), join(output_dir, UNVERFIED_SUFFIX).comps)
           /\ is_some(made.datablobs) =>
                Under(unwrap(made.datablobs), join(output_dir, TMP_SUFFIX).comps)
           /\ is_some(made.final) =>
                /\ Under(unwrap(made.final), output_dir.comps)
                /\ Len(unwrap(made.final)) = Len(output_dir.comps) + 1

----------------------------------------------------------------------------
\* the sum 20 + M + o without any width: five limbs hold it
ExactOffset(manifest_size, offset) ==
    LET wide(x) == Append(x, 0)
    IN wrapping_add(wrapping_add(wide(U64(DELTA_UPDATE_HEADER_SIZE)), wide(manifest_size)),
                    wide(offset))

\* C26: for every manifest size M and every offset o translate_offset returns
\* exactly 20 + M + o: it neither wraps around modulo 2^64 nor aborts.
C26_TranslateOffsetExact ==
    /\ pc # "panicked"
    /\ pc = "translated" =>
          /\ out.ok
          /\ Append(out.val, 0) = ExactOffset(arg.manifest_size, arg.offset)

----------------------------------------------------------------------------
\* s is exactly 2N hexadecimal digits
IsHexOfLength(s, N) == Len(s) = 2 * N /\ \A i \in 1..Len(s) : s[i] \in HexDigits

\* C24: try_from_hex_string::<T>(s) returns the N-byte digest when s is exactly
\* 2N hexadecimal digits, and for every other s (wrong length, odd length,
\* characters that are no hex digits) it returns an error value: never a
\* digest and never an abort.
C24_HexDigestOrError ==
    /\ pc # "panicked"
    /\ pc = "parsed" =>
          LET N == FINGERPRINT_SIZE(arg.T)
          IN /\ out.ok <=> IsHexOfLength(arg.s, N)
             /\ out.ok =>
                   /\ Len(out.val) = N
                   /\ \A i \in 1..N :
                         out.val[i] = 16 * HexValue(arg.s[2 * i - 1]) + HexValue(arg.s[2 * i])

----------------------------------------------------------------------------
\* the number of bytes hash_on_disk has to hash
PrefixLen ==
    IF is_some(hod.maxlen) THEN Min(hod.filelen, unwrap(hod.maxlen)) ELSE hod.filelen

\* C22: hash_on_disk(path, maxlen) gives the hasher exactly the first
\* min(file_len, maxlen) bytes of the file (the whole file without maxlen), in
\* order, in chunks of at most 10 MiB whose lengths add up to that number,
\* and then ends with the digest of that prefix; no chunk is empty, so every
\* pass of the loop makes progress, and no read goes beyond the file.
C22_HashOfPrefix ==
    /\ \A j \in 1..Len(hod.fed) : hod.fed[j] > 0 /\ hod.fed[j] <= CHUNKLEN
    /\ pc = "hash_loop" =>
          /\ hod.maxlen_to_read >= 0
          /\ SumOf(hod.fed) + hod.maxlen_to_read = PrefixLen
    /\ pc = "hashed" =>
          /\ out = Ok([alg |-> hod.alg, of |-> PrefixLen])
          /\ SumOf(hod.fed) = PrefixLen
          /\ Len(hod.fed) = (PrefixLen + CHUNKLEN - 1) \div CHUNKLEN

\* a file longer than two chunks hashed up to a maxlen that is not a multiple
\* of the chunk length: the last chunk is the short one
C22_Witness ==
    /\ pc = "hashed"
    /\ out.ok
    /\ hod.maxlen = Some(CHUNKLEN + 1)
    /\ hod.filelen > CHUNKLEN + 1
    /\ hod.fed = <<CHUNKLEN, 1>>

----------------------------------------------------------------------------
\* 20 + M + signatures_offset of the file on disk
HeaderDataLength(f) ==
    DELTA_UPDATE_HEADER_SIZE + f.body.manifest_size + unwrap(f.body.signatures_offset)

\* C21: a package becomes Verified only when a signature verifies against the
\* SHA-256 of exactly the bytes F[0 .. 20 + M + signatures_offset) of the
\* file, which then has at least that many bytes; a file that is shorter
\* than 20 + M + signatures_offset is never Verified.
C21_DigestOverExactPrefix ==
    pc \in {"rename", "failed_verify"} =>
        LET f == OnDisk
        IN /\ status = Verified =>
                /\ is_some(f.body.signatures_offset)
                /\ f.len >= HeaderDataLength(f)
                /\ \E i \in DOMAIN f.sigs.signatures :
                      LET c == f.sigs.signatures[i]
                      IN /\ is_some(c.data)
                         /\ unwrap(c.data).over.alg = "sha256"
                         /\ unwrap(c.data).over.of.body = f.body
                         /\ unwrap(c.data).over.of.n = HeaderDataLength(f)
           /\ (is_some(f.body.signatures_offset) /\ f.len < HeaderDataLength(f))
                => status # Verified /\ ret = "err"

\* a Verified file whose signatures blob of two candidates lies behind the
\* bytes hashed
C21_Witness ==
    /\ pc = "rename" /\ status = Verified
    /\ OnDisk.len = HeaderDataLength(OnDisk) + 2
    /\ OnDisk.body.datalen = MaxData

----------------------------------------------------------------------------
\* C27: whatever the order in which check_download, download and
\* verify_signature_on_disk are called, the status becomes Verified only
\* from Unverified.
C27_VerifiedOnlyFromUnverified ==
    [][(status # Verified /\ status' = Verified) => status = Unverified]_vars

----------------------------------------------------------------------------
\* the sha256 of the first postinstall action of the manifest, if there is one
RECURSIVE PostInstallSha256(_)
PostInstallSha256(actions) ==
    IF actions = <<>> THEN None
    ELSE IF Head(actions).event = "postinstall" THEN Some(Head(actions).sha256)
    ELSE PostInstallSha256(Tail(actions))

\* C23: for a <package> without hash_sha256 in a manifest with a postinstall
\* action that carries sha256, the work item get_pkgs_to_download builds has
\* the sha256 of the action as its expected SHA-256, together with the SHA-1
\* of the hash attribute and the declared size.
C23_Sha256FromPostInstallAction ==
    pc = "selected" =>
        \A i \in DOMAIN arg.packages :
            LET e == arg.packages[i]
            IN (e.matches /\ is_none(e.pkg.hash_sha256)
                  /\ is_some(PostInstallSha256(arg.actions)))
               => \E j \in DOMAIN out.val :
                     /\ out.val[j].name = e.name
                     /\ out.val[j].pkg.hash_sha256 = PostInstallSha256(arg.actions)
                     /\ out.val[j].pkg.hash_sha1 = e.pkg.hash_sha1
                     /\ out.val[j].pkg.size = e.pkg.size

----------------------------------------------------------------------------
(* get_data_blobs on its own, with the partition operations of the manifest  *)
(* and the bytes of the output file.  In the pipeline above get_data_blobs   *)
(* stands for the image these writes leave.                                  *)

\* n * b for a number n below 2^31 and a value b of limbs, by doubling: the
\* product modulo the width of b, and whether the product does not fit it
RECURSIVE overflowing_mul(_, _)
overflowing_mul(n, b) ==
    IF n = 0 THEN [val |-> [i \in 1..Len(b) |-> 0], overflow |-> FALSE]
    ELSE LET h == overflowing_mul(n \div 2, b)
             d == [val |-> wrapping_add(h.val, h.val),
                   overflow |-> h.overflow \/ overflowing_add(h.val, h.val)]
         IN IF n % 2 = 0 THEN d
            ELSE [val |-> wrapping_add(d.val, b),
                  overflow |-> d.overflow \/ overflowing_add(d.val, b)]

\* the payload the operations read from: a header, a manifest of BlobManifest
\* bytes and a data region of three bytes; byte i of the data region is
\* DataByte(i), and a bzip2 stream of one byte unpacks to two bytes
BlobManifest == 1
DataRegionLen == 3
DataByte(i) == [src |-> i, part |-> 0]
Unpacked(b) == <<[src |-> b.src, part |-> 1], [src |-> b.src, part |-> 2]>>

\* f.read_exact_at(&mut partdata, pos)
read_exact_at(pos, len) ==
    IF pos + len > translate_offset(BlobManifest, DataRegionLen) THEN Err("ReadData")
    ELSE Ok([i \in 1..len |-> DataByte(pos + i - 1 - translate_offset(BlobManifest, 0))])

\* BzDecoder::read_to_end: the stream of the last byte of the data region
\* is not a bzip2 stream
RECURSIVE bz_read_to_end(_)
bz_read_to_end(partdata) ==
    IF partdata = <<>> THEN Ok(<<>>)
    ELSE IF Head(partdata).src = DataRegionLen - 1 THEN Err("UnpackBzip2")
    ELSE LET rest == bz_read_to_end(Tail(partdata))
         IN IF rest.ok THEN Ok(Unpacked(Head(partdata)) \o rest.val) ELSE rest

\* The output file is the set of its bytes, each with its offset (a value of
\* limbs).  write_all_at(data, offset) replaces the bytes at offset,
\* offset + 1, ...; pwrite refuses an offset above i64::MAX.
WriteAt(img, offset, data) ==
    LET at(i) == wrapping_add(offset, ToLimbs(i - 1, Len(offset)))
    IN {r \in img : \A i \in 1..Len(data) : r.at # at(i)}
       \cup {[at |-> at(i), byte |-> data[i]] : i \in 1..Len(data)}

write_all_at(img, offset, data) ==
    IF offset[4] >= Base \div 2 THEN Err("CopyData")
    ELSE Ok(WriteAt(img, offset, data))

\* the for loop of get_data_blobs from operation i on, with the output file
\* written so far; checked says whether the build has overflow checks.  The
\* result is the value returned, the output file, and whether the call
\* panicked.
RECURSIVE partition_operations_loop(_, _, _, _, _)
partition_operations_loop(checked, block_size, ops, i, img) ==
    IF i > Len(ops) THEN [panic |-> FALSE, res |-> Ok("()"), img |-> img]
    ELSE
    LET pop == ops[i]
        fail(e) == [panic |-> FALSE, res |-> Err(e), img |-> img]
    IN IF is_none(pop.data_offset) THEN fail("MissingDataOffset")
       ELSE IF is_none(pop.data_length) THEN fail("MissingDataLength")
       ELSE IF Len(pop.dst_extents) # 1 THEN fail("IncorrectNumExtents")
       ELSE IF is_none(pop.dst_extents[1].start_block) THEN fail("MissingStartBlock")
       ELSE
       LET start_block == overflowing_mul(block_size, unwrap(pop.dst_extents[1].start_block))
           translated_offset == translate_offset(BlobManifest, unwrap(pop.data_offset))
           partdata == read_exact_at(translated_offset, unwrap(pop.data_length))
           unpacked == bz_read_to_end(partdata.val)
           written == write_all_at(img, start_block.val,
                                   IF pop.type = Some("REPLACE_BZ") THEN unpacked.val
                                   ELSE partdata.val)
       IN IF start_block.overflow /\ checked
          THEN [panic |-> TRUE, res |-> Err("attempt to multiply with overflow"), img |-> img]
          ELSE IF ~partdata.ok THEN fail(partdata.err)
          ELSE IF is_none(pop.type) THEN fail("MissingPartitionType")
          ELSE IF pop.type = Some("REPLACE_BZ") /\ ~unpacked.ok THEN fail(unpacked.err)
          ELSE IF ~written.ok THEN fail(written.err)
          ELSE partition_operations_loop(checked, block_size, ops, i + 1, written.val)

\* the operations of the manifests: type, data_offset, data_length and the
\* destination extents
InstallOperation(type, data_offset, data_length, start_blocks) ==
    [type |-> type, data_offset |-> data_offset, data_length |-> data_length,
     dst_extents |-> [i \in 1..Len(start_blocks) |-> [start_block |-> start_blocks[i]]]]

\* start blocks: small ones, 2^51 and 2^52
StartBlocks == {U64(0), U64(1), U64(2), <<0, 0, 0, 8>>, <<0, 0, 0, 16>>}

InstallOperations ==
    {InstallOperation(Some(t), Some(o), Some(l), <<Some(b)>>) :
        t \in {"REPLACE", "REPLACE_BZ"}, o \in {0, DataRegionLen - 1}, l \in {1, 2},
        b \in StartBlocks}
    \cup {InstallOperation(Some("REPLACE"), Some(0), Some(1), e) :
             e \in {<<>>, <<Some(U64(0)), Some(U64(1))>>, <<None>>}}
    \cup {InstallOperation(None, Some(0), Some(1), <<Some(U64(0))>>),
          InstallOperation(Some("REPLACE"), None, Some(1), <<>>),
          InstallOperation(Some("REPLACE"), Some(0), None, <<>>)}

\* the longest list of partition operations
MaxOps == 2

BlockSizes == {1, 2, 4096}

InitBlobs ==
    /\ pkg = AnyPackage
    /\ status = Unverified
    /\ unverified = None /\ blobs = None /\ final = None
    /\ pubkey_file = KeyFile
    /\ pc = "get_data_blobs"
    /\ ret = "none" /\ err = "" /\ requests = 0
    /\ Idle
    /\ reader = "delta_update/mod.rs"
    /\ cfg = NoConfig /\ pkgs_to_dl = <<>> /\ disk = <<>> /\ idx = 0
    /\ tmp_dir = TRUE /\ run = "none" /\ nr = 0 /\ renamed = 0
    /\ hdrret = Err("")
    /\ arg \in [block_size : BlockSizes,
                partition_operations :
                    UNION {[1..n -> InstallOperations] : n \in 0..MaxOps}]
    /\ out = [panic |-> FALSE, res |-> Err(""), img |-> {}]
    /\ hod = NoHash

\* get_data_blobs(&upfile, &header, &delta_archive_manifest, tmpfile) in a
\* build with and in a build without overflow checks; File::create leaves an
\* empty output file
GetDataBlobs ==
    /\ pc = "get_data_blobs"
    /\ \E checked \in BOOLEAN :
         out' = partition_operations_loop(checked, arg.block_size,
                                          arg.partition_operations, 1, {})
    /\ pc' = IF out'.panic THEN "panicked" ELSE "blobs_written"
    /\ UNCHANGED <<pkg, status, unverified, blobs, final, pubkey_file, ret, err,
                   calls, max_tries, func, requests, sigbytes, digest, sigret>>
    /\ UNCHANGED <<reader, cfg, pkgs_to_dl, disk, idx, tmp_dir, run, nr, renamed,
                   hdrret, arg, hod>>

NextBlobs == GetDataBlobs

SpecBlobs == InitBlobs /\ [][NextBlobs]_vars

----------------------------------------------------------------------------
\* offsets of the output file without any width: six limbs hold the product
\* of a block size below 2^31 and a u64
Wide(x) == x \o <<0, 0>>
ExactStart(block_size, pop) ==
    overflowing_mul(block_size, Wide(unwrap(pop.dst_extents[1].start_block))).val

\* the bytes an operation writes: the data_length bytes at 20 + M + data_offset,
\* unpacked if and only if the type is REPLACE_BZ
BytesOf(pop) ==
    LET partdata == read_exact_at(translate_offset(BlobManifest, unwrap(pop.data_offset)),
                                  unwrap(pop.data_length)).val
    IN IF pop.type = Some("REPLACE_BZ") THEN bz_read_to_end(partdata).val ELSE partdata

\* the positional writes of the operations from operation i on, in list order
RECURSIVE PositionalWrites(_, _, _, _)
PositionalWrites(block_size, ops, i, img) ==
    IF i > Len(ops) THEN img
    ELSE PositionalWrites(block_size, ops, i + 1,
                          WriteAt(img, ExactStart(block_size, ops[i]), BytesOf(ops[i])))

\* the offsets an operation writes to
DestinationOf(block_size, pop) ==
    {r.at : r \in WriteAt({}, ExactStart(block_size, pop), BytesOf(pop))}

\* C25: get_data_blobs applies the partition operations in list order; an
\* operation without exactly one destination extent makes the call fail with
\* IncorrectNumExtents; each operation writes the data_length bytes read at
\* 20 + M + data_offset (unpacked if and only if the type is REPLACE_BZ) at
\* byte offset block_size * start_block, so the image is the result of these
\* positional writes in order, and is the same in the other order when the
\* destinations of two operations do not overlap.
C25_PositionalWritesInOrder ==
    /\ pc # "panicked"
    /\ pc = "blobs_written" =>
          LET ops == arg.partition_operations
              bs == arg.block_size
          IN /\ (Len(ops) >= 1 /\ is_some(ops[1].data_offset)
                    /\ is_some(ops[1].data_length) /\ Len(ops[1].dst_extents) # 1)
                   => out.res = Err("IncorrectNumExtents")
             /\ out.res.ok =>
                   /\ \A i \in DOMAIN ops : Len(ops[i].dst_extents) = 1
                   /\ {[at |-> Wide(r.at), byte |-> r.byte] : r \in out.img}
                        = PositionalWrites(bs, ops, 1, {})
                   /\ (Len(ops) = 2
                         /\ DestinationOf(bs, ops[1]) \cap DestinationOf(bs, ops[2]) = {})
                        => PositionalWrites(bs, <<ops[2], ops[1]>>, 1, {})
                             = PositionalWrites(bs, ops, 1, {})

----------------------------------------------------------------------------
\* C30: for every max_tries, 0 included, retry_loop ends after at most
\* max(1, max_tries) calls of func, and the loop bound max_tries - 1 neither
\* wraps nor aborts.
C30_TerminatesForEveryMaxTries ==
    /\ pc # "panicked"
    /\ calls <= Max(1, max_tries)

====
